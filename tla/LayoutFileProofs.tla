--------------------------- MODULE LayoutFileProofs ---------------------------
(* The layout file is an atomic map of dashboards, and what it serves is what  *)
(* was acknowledged, when no set starts while another runs: for every set of   *)
(* dashboards and documents, every number of threads and crashes anywhere.     *)
(* A torn file stays torn whether sets overlap or not.                         *)
EXTENDS LayoutFile, TLAPS

OneAtATime == ~Overlap

IdleThread == {Idle}
Loading == [pc : {"load"}, dashboard : Dashboards, doc : Docs]
Writing == [pc : {"open", "write"}, dashboard : Dashboards, doc : Docs, all : Maps]

\* The map the set on thread t will leave behind.
Outcome(t) == [acked EXCEPT ![thread[t].dashboard] = thread[t].doc]

\* The inductive invariant.  A set that runs is the only one; it holds the acknowledged map with its
\* own document in place, and while it writes the file is empty; between sets the file is that map,
\* unless a crash has torn it.
FileInv ==
  /\ TypeOK
  /\ \A t, u \in Threads : thread[t] # Idle /\ thread[u] # Idle => t = u
  /\ \A t \in Threads : thread[t].pc = "open" => file.text = acked /\ thread[t].all = Outcome(t)
  /\ \A t \in Threads : thread[t].pc = "write" =>
       file.text = Unreadable /\ file.size = 0 /\ thread[t].all = Outcome(t)
  /\ (\A t \in Threads : thread[t].pc # "write") => file.text = acked \/ (torn /\ file.text = Unreadable)

-----------------------------------------------------------------------------
LEMMA StateOfThread ==
  ASSUME TypeOK, NEW t \in Threads
  PROVE  /\ thread[t] = Idle \/ thread[t] \in Loading \/ thread[t] \in Writing
         /\ thread[t].pc = "idle" <=> thread[t] = Idle
         /\ thread[t].pc = "load" <=> thread[t] \in Loading
         /\ thread[t].pc \in {"open", "write"} <=> thread[t] \in Writing
<1>1. thread[t] = Idle \/ thread[t] \in Loading \/ thread[t] \in Writing
  BY DEF TypeOK, Loading, Writing
<1>2. CASE thread[t] = Idle
  BY <1>2 DEF Idle, Loading, Writing
<1>3. CASE thread[t] \in Loading
  <2>1. thread[t].pc = "load"
    BY <1>3 DEF Loading
  <2> QED
    BY <1>3, <2>1 DEF Idle, Writing
<1>4. CASE thread[t] \in Writing
  <2>1. thread[t].pc \in {"open", "write"}
    BY <1>4 DEF Writing
  <2> QED
    BY <1>4, <2>1 DEF Idle, Loading
<1> QED
  BY <1>1, <1>2, <1>3, <1>4

LEMMA FileStarts == Init => FileInv
<1> SUFFICES ASSUME Init PROVE FileInv
  OBVIOUS
<1>1. \A t \in Threads : thread[t] = Idle /\ thread[t].pc = "idle"
  BY DEF Init, Idle
<1>2. file.text = acked
  BY DEF Init
<1>3. TypeOK
  BY LayoutFileAssumption DEF Init, TypeOK
<1> QED
  BY <1>1, <1>2, <1>3 DEF FileInv

(* Types: they need no order of the sets. *)

LEMMA OneThreadTyped ==
  ASSUME TypeOK, NEW t \in Threads, NEW s, s \in IdleThread \cup Loading \cup Writing,
         thread' = [thread EXCEPT ![t] = s],
         file' \in [text : Maps \cup {Unreadable}, size : Nat], acked' \in Maps, torn' = torn
  PROVE  TypeOK'
<1>1. thread' \in [Threads -> IdleThread \cup Loading \cup Writing]
  BY DEF TypeOK, IdleThread, Loading, Writing
<1> QED
  BY <1>1 DEF TypeOK, IdleThread, Loading, Writing

LEMMA NextKeepsTypes == TypeOK /\ [Next]_vars => TypeOK'
<1> SUFFICES ASSUME TypeOK, [Next]_vars PROVE TypeOK'
  OBVIOUS
<1>0. file.text \in Maps \cup {Unreadable} /\ file.size \in Nat /\ acked \in Maps
  BY DEF TypeOK
<1>1. ASSUME NEW t \in Threads, NEW d \in Dashboards, NEW doc \in Docs, Start(t, d, doc) PROVE TypeOK'
  <2>1. Set(d, doc) \in Loading
    BY DEF Set, Loading
  <2> QED
    BY <1>1, <2>1, OneThreadTyped DEF Start, TypeOK
<1>2. ASSUME NEW t \in Pool, NEW d \in Dashboards, ResetStarts(t, d) PROVE TypeOK'
  <2>1. Baseline[d] \in Docs
    BY <1>2, LayoutFileAssumption DEF ResetStarts, Maps
  <2> QED
    BY <1>1, <1>2, <2>1 DEF ResetStarts, Threads
<1>3. ASSUME NEW t \in Threads, Load(t) PROVE TypeOK'
  <2>1. thread[t].dashboard \in Dashboards /\ thread[t].doc \in Docs
    BY <1>3, StateOfThread DEF Load, Loading
  <2>2. CASE file.text # Unreadable /\ LoadInto(t, file.text)
    <3> DEFINE s == [pc |-> "open", dashboard |-> thread[t].dashboard, doc |-> thread[t].doc,
                     all |-> Merged(file.text, thread[t].dashboard, thread[t].doc)]
    <3>1. Merged(file.text, thread[t].dashboard, thread[t].doc) \in Maps
      BY <1>0, <2>1, <2>2 DEF Merged, Maps
    <3>2. s \in Writing
      BY <2>1, <3>1 DEF Writing
    <3>3. thread' = [thread EXCEPT ![t] = s]
      BY <2>2 DEF LoadInto
    <3> HIDE DEF s
    <3> QED
      BY <1>3, <3>2, <3>3, OneThreadTyped DEF Load, TypeOK
  <2>3. CASE thread' = [thread EXCEPT ![t] = Idle]
    BY <1>3, <2>3, OneThreadTyped DEF Load, TypeOK, IdleThread
  <2> QED
    BY <1>3, <2>2, <2>3 DEF Load
<1>4. ASSUME NEW t \in Threads, Open(t) PROVE TypeOK'
  <2> DEFINE s == [thread[t] EXCEPT !.pc = "write"]
  <2>1. thread[t] \in Writing
    BY <1>4, StateOfThread DEF Open
  <2>2. s \in Writing
    BY <2>1 DEF Writing
  <2>3. thread' = [thread EXCEPT ![t] = s] /\ file' \in [text : Maps \cup {Unreadable}, size : Nat]
    BY <1>4 DEF Open
  <2> HIDE DEF s
  <2> QED
    BY <1>0, <1>4, <2>2, <2>3, OneThreadTyped DEF Open
<1>5. ASSUME NEW t \in Threads, Write(t) PROVE TypeOK'
  <2>1. thread[t] \in Writing
    BY <1>5, StateOfThread DEF Write
  <2>2. thread[t].all \in Maps /\ thread[t].dashboard \in Dashboards /\ thread[t].doc \in Docs
    BY <2>1 DEF Writing
  <2>3. Size[thread[t].all] \in Nat
    BY <2>2, LayoutFileAssumption
  <2>4. file' \in [text : Maps \cup {Unreadable}, size : Nat]
    BY <1>0, <1>5, <2>2, <2>3 DEF Write, Overlaid
  <2>5. acked' \in Maps
    BY <1>0, <1>5, <2>2 DEF Write, Maps
  <2> QED
    BY <1>5, <2>4, <2>5, OneThreadTyped DEF Write, IdleThread
<1>6. CASE Crash
  BY <1>6 DEF Crash, TypeOK, Idle
<1>7. CASE UNCHANGED vars
  BY <1>7 DEF vars, TypeOK
<1> QED
  BY <1>1, <1>2, <1>3, <1>4, <1>5, <1>6, <1>7 DEF Next, PutStarts, Threads

-----------------------------------------------------------------------------
(* Sets one at a time. *)

LEMMA StartKeepsFile ==
  ASSUME OneAtATime, FileInv, NEW t \in Threads, NEW d \in Dashboards, NEW doc \in Docs, Start(t, d, doc)
  PROVE  FileInv'
<1>1. Set(d, doc) \in Loading /\ Set(d, doc).pc = "load"
  BY DEF Set, Loading
<1>2. \A u \in Threads : thread[u] = Idle
  BY DEF Start, OneAtATime
<1>3. \A u \in Threads : thread'[u] = IF u = t THEN Set(d, doc) ELSE Idle
  BY <1>2 DEF Start, FileInv, TypeOK
<1>4. \A u \in Threads : thread'[u].pc \in {"idle", "load"} /\ thread[u].pc = "idle"
  BY <1>1, <1>2, <1>3 DEF Idle
<1>5. TypeOK'
  <2>1. thread' \in [Threads -> IdleThread \cup Loading \cup Writing]
    BY <1>1, <1>3 DEF Start, FileInv, TypeOK, IdleThread, Loading, Writing
  <2> QED
    BY <2>1 DEF Start, FileInv, TypeOK, IdleThread, Loading, Writing
<1> QED
  BY <1>3, <1>4, <1>5 DEF Start, FileInv

\* A thread that is not idle is alone.
LEMMA OthersIdle ==
  ASSUME FileInv, NEW t \in Threads, thread[t].pc # "idle"
  PROVE  \A u \in Threads : u # t => thread[u] = Idle /\ thread[u].pc = "idle"
  BY DEF FileInv, Idle

LEMMA OneMoves ==
  ASSUME FileInv, NEW t \in Threads, NEW s, s = Idle \/ s \in Loading \/ s \in Writing,
         thread' = [thread EXCEPT ![t] = s]
  PROVE  /\ thread' \in [Threads -> IdleThread \cup Loading \cup Writing]
         /\ \A u \in Threads : thread'[u] = IF u = t THEN s ELSE thread[u]
  BY DEF FileInv, TypeOK, IdleThread, Loading, Writing

LEMMA LoadKeepsFile ==
  ASSUME FileInv, NEW t \in Threads, Load(t)
  PROVE  FileInv'
<1>1. thread[t] \in Loading /\ thread[t].pc = "load"
  BY StateOfThread DEF FileInv, Load
<1>2. \A u \in Threads : u # t => thread[u] = Idle /\ thread[u].pc = "idle"
  BY <1>1, OthersIdle
<1>3. file.text = acked \/ (torn /\ file.text = Unreadable)
  BY <1>1, <1>2 DEF FileInv
<1>4. CASE file.text # Unreadable /\ LoadInto(t, file.text)
  <2> DEFINE s == [pc |-> "open", dashboard |-> thread[t].dashboard, doc |-> thread[t].doc,
                   all |-> Merged(file.text, thread[t].dashboard, thread[t].doc)]
  <2>1. file.text = acked /\ acked \in Maps
    BY <1>3, <1>4 DEF FileInv, TypeOK
  <2>2. thread[t].dashboard \in Dashboards /\ thread[t].doc \in Docs
    BY <1>1 DEF Loading
  <2>3. Merged(acked, thread[t].dashboard, thread[t].doc) \in Maps
    BY <2>1, <2>2 DEF Merged, Maps
  <2>4. s \in Writing /\ s.pc = "open" /\ s.all = Outcome(t) /\ s.dashboard = thread[t].dashboard
        /\ s.doc = thread[t].doc
    BY <2>1, <2>2, <2>3 DEF Writing, Merged, Outcome
  <2>5. thread' = [thread EXCEPT ![t] = s]
    BY <1>4 DEF LoadInto
  <2> HIDE DEF s
  <2>6. /\ thread' \in [Threads -> IdleThread \cup Loading \cup Writing]
        /\ \A u \in Threads : thread'[u] = IF u = t THEN s ELSE thread[u]
    BY <2>4, <2>5, OneMoves
  <2>7. TypeOK'
    BY <2>6 DEF Load, FileInv, TypeOK, IdleThread, Loading, Writing
  <2>8. Outcome(t)' = Outcome(t)
    BY <2>4, <2>6 DEF Outcome, Load
  <2> QED
    BY <1>2, <2>1, <2>4, <2>6, <2>7, <2>8 DEF Load, FileInv
<1>5. CASE file.text = Unreadable /\ thread' = [thread EXCEPT ![t] = Idle]
  <2>1. /\ thread' \in [Threads -> IdleThread \cup Loading \cup Writing]
        /\ \A u \in Threads : thread'[u] = IF u = t THEN Idle ELSE thread[u]
    BY <1>5, OneMoves
  <2>2. \A u \in Threads : thread'[u] = Idle /\ thread'[u].pc = "idle"
    BY <1>2, <2>1 DEF Idle
  <2>3. TypeOK'
    BY <2>1 DEF Load, FileInv, TypeOK, IdleThread, Loading, Writing
  <2> QED
    BY <1>3, <2>2, <2>3 DEF Load, FileInv
<1> QED
  BY <1>4, <1>5 DEF Load

LEMMA OpenKeepsFile ==
  ASSUME FileInv, NEW t \in Threads, Open(t)
  PROVE  /\ FileInv'
         /\ thread'[t].pc = "write" /\ thread'[t].all = Outcome(t) /\ file.text = acked
         /\ thread[t].dashboard \in Dashboards /\ thread[t].doc \in Docs
         /\ \A u \in Threads : u # t => thread'[u].pc = "idle"
         /\ \A u \in Threads : thread[u].pc # "write"
<1> DEFINE s == [thread[t] EXCEPT !.pc = "write"]
<1>1. thread[t] \in Writing /\ thread[t].pc = "open"
  BY StateOfThread DEF FileInv, Open
<1>2. \A u \in Threads : u # t => thread[u] = Idle /\ thread[u].pc = "idle"
  BY <1>1, OthersIdle
<1>3. file.text = acked /\ thread[t].all = Outcome(t)
  BY <1>1 DEF FileInv
<1>4. s \in Writing /\ s.pc = "write" /\ s.all = thread[t].all /\ s.dashboard = thread[t].dashboard
      /\ s.doc = thread[t].doc
  BY <1>1 DEF Writing
<1>5. thread' = [thread EXCEPT ![t] = s] /\ file'.text = Unreadable /\ file'.size = 0
  BY DEF Open
<1> HIDE DEF s
<1>6. /\ thread' \in [Threads -> IdleThread \cup Loading \cup Writing]
      /\ \A u \in Threads : thread'[u] = IF u = t THEN s ELSE thread[u]
  BY <1>4, <1>5, OneMoves
<1>7. TypeOK'
  BY <1>6 DEF Open, FileInv, TypeOK, IdleThread, Loading, Writing
<1>8. Outcome(t)' = Outcome(t)
  BY <1>4, <1>6 DEF Outcome, Open
<1>9. FileInv'
  BY <1>2, <1>3, <1>4, <1>5, <1>6, <1>7, <1>8 DEF FileInv
<1> QED
  BY <1>1, <1>2, <1>3, <1>4, <1>6, <1>9 DEF Writing

LEMMA WriteKeepsFile ==
  ASSUME FileInv, NEW t \in Threads, Write(t)
  PROVE  /\ FileInv'
         /\ file'.text = thread[t].all
         /\ \A u \in Threads : thread'[u].pc = "idle"
         /\ \A u \in Threads : u # t => thread[u].pc = "idle"
<1>1. thread[t] \in Writing /\ thread[t].pc = "write"
  BY StateOfThread DEF FileInv, Write
<1>2. \A u \in Threads : u # t => thread[u] = Idle /\ thread[u].pc = "idle"
  BY <1>1, OthersIdle
<1>3. file.size = 0 /\ thread[t].all = Outcome(t) /\ thread[t].all \in Maps
  BY <1>1 DEF FileInv, Writing
<1>4. file' = [text |-> thread[t].all, size |-> Size[thread[t].all]] /\ acked' = thread[t].all
  <2>1. Size[thread[t].all] \in Nat
    BY <1>3, LayoutFileAssumption
  <2> QED
    BY <1>3, <2>1 DEF Write, Overlaid, Outcome
<1>5. /\ thread' \in [Threads -> IdleThread \cup Loading \cup Writing]
      /\ \A u \in Threads : thread'[u] = IF u = t THEN Idle ELSE thread[u]
  BY OneMoves DEF Write
<1>6. \A u \in Threads : thread'[u] = Idle /\ thread'[u].pc = "idle"
  BY <1>2, <1>5 DEF Idle
<1>7. TypeOK'
  <2>1. Size[thread[t].all] \in Nat
    BY <1>3, LayoutFileAssumption
  <2>2. file' \in [text : Maps \cup {Unreadable}, size : Nat] /\ acked' \in Maps
    BY <1>3, <1>4, <2>1
  <2> QED
    BY <1>5, <2>2 DEF Write, FileInv, TypeOK, IdleThread, Loading, Writing
<1>8. FileInv'
  BY <1>4, <1>6, <1>7 DEF FileInv
<1> QED
  BY <1>2, <1>4, <1>6, <1>8

LEMMA CrashKeepsFile ==
  ASSUME FileInv, Crash
  PROVE  FileInv' /\ \A u \in Threads : thread'[u].pc = "idle"
<1>1. \A u \in Threads : thread'[u] = Idle /\ thread'[u].pc = "idle"
  BY DEF Crash, Idle
<1>2. file' = file /\ acked' = acked /\ (torn' <=> torn \/ \E t \in Threads : thread[t].pc = "write")
  BY DEF Crash, FileInv, TypeOK
<1>3. TypeOK'
  BY <1>1, <1>2 DEF Crash, FileInv, TypeOK
<1>4. file'.text = acked' \/ (torn' /\ file'.text = Unreadable)
  BY <1>2 DEF FileInv
<1> QED
  BY <1>1, <1>3, <1>4 DEF FileInv

LEMMA NextKeepsFile == OneAtATime /\ FileInv /\ [Next]_vars => FileInv'
<1> SUFFICES ASSUME OneAtATime, FileInv, [Next]_vars PROVE FileInv'
  OBVIOUS
<1>1. ASSUME NEW d \in Dashboards, NEW doc \in Docs, PutStarts(d, doc) PROVE FileInv'
  BY <1>1, StartKeepsFile DEF PutStarts, Threads
<1>2. ASSUME NEW t \in Pool, NEW d \in Dashboards, ResetStarts(t, d) PROVE FileInv'
  <2>1. Baseline[d] \in Docs
    BY <1>2, LayoutFileAssumption DEF ResetStarts, Maps
  <2> QED
    BY <1>2, <2>1, StartKeepsFile DEF ResetStarts, Threads
<1>3. ASSUME NEW t \in Threads, Load(t) \/ Open(t) \/ Write(t) PROVE FileInv'
  BY <1>3, LoadKeepsFile, OpenKeepsFile, WriteKeepsFile
<1>4. CASE Crash
  BY <1>4, CrashKeepsFile
<1>5. CASE UNCHANGED vars
  BY <1>5 DEF vars, FileInv, TypeOK, Outcome
<1> QED
  BY <1>1, <1>2, <1>3, <1>4, <1>5 DEF Next

-----------------------------------------------------------------------------
(* The refinement: a set takes effect when it empties the file. *)

LEMMA StoredAtRest ==
  ASSUME \A t \in Threads : thread[t].pc # "write"
  PROVE  Stored = file.text
  BY DEF Stored, Pending

LEMMA StoredWhileWriting ==
  ASSUME NEW t \in Threads, thread[t].pc = "write", \A u \in Threads : u # t => thread[u].pc = "idle"
  PROVE  Stored = thread[t].all
<1>1. Pending = {t}
  BY DEF Pending
<1> QED
  BY <1>1 DEF Stored

LEMMA StartOfMap == Init => LM!Init
<1> SUFFICES ASSUME Init PROVE LM!Init
  OBVIOUS
<1>1. \A t \in Threads : thread[t].pc # "write"
  BY DEF Init, Idle
<1>2. Stored = acked
  BY <1>1, StoredAtRest DEF Init
<1> QED
  BY <1>2 DEF LM!Init, Init, Maps

LEMMA StepOfMap ==
  ASSUME OneAtATime, FileInv, [Next]_vars
  PROVE  [LM!Next]_Stored
<1>1. CASE UNCHANGED <<thread, file>>
  BY <1>1 DEF Stored, Pending
<1>2. ASSUME NEW t \in Threads, NEW d, NEW doc, Start(t, d, doc) PROVE UNCHANGED Stored
  <2>1. \A u \in Threads : thread[u].pc # "write"
    BY <1>2 DEF Start, OneAtATime, Idle
  <2>2. \A u \in Threads : thread'[u].pc # "write"
    BY <1>2, <2>1 DEF Start, Set, FileInv, TypeOK
  <2> QED
    BY <1>2, <2>1, <2>2 DEF Start, Stored, Pending
<1>3. ASSUME NEW t \in Threads, Load(t) PROVE UNCHANGED Stored
  <2>1. \A u \in Threads : thread[u].pc # "write"
    BY <1>3, OthersIdle DEF Load
  <2>2. \A u \in Threads : thread'[u].pc # "write"
    BY <1>3, <2>1 DEF Load, LoadInto, Idle, FileInv, TypeOK
  <2> QED
    BY <1>3, <2>1, <2>2 DEF Load, Stored, Pending
<1>4. ASSUME NEW t \in Threads, Open(t) PROVE LM!Next
  <2>1. Stored = acked /\ acked \in Maps
    BY <1>4, OpenKeepsFile, StoredAtRest DEF FileInv, TypeOK
  <2>2. Stored' = Outcome(t)
    BY <1>4, OpenKeepsFile DEF Stored, Pending
  <2>3. acked # Unreadable
    BY <2>1, LayoutFileAssumption
  <2>4. LM!Put(thread[t].dashboard, thread[t].doc)
    BY <2>1, <2>2, <2>3 DEF LM!Put, Outcome
  <2> QED
    BY <1>4, <2>4, OpenKeepsFile DEF LM!Next
<1>5. ASSUME NEW t \in Threads, Write(t) PROVE UNCHANGED Stored
  <2>1. Stored = thread[t].all
    BY <1>5, WriteKeepsFile, StoredWhileWriting DEF Write
  <2>2. Stored' = file'.text
    BY <1>5, WriteKeepsFile DEF Stored, Pending
  <2> QED
    BY <1>5, <2>1, <2>2, WriteKeepsFile
<1>6. CASE Crash
  <2>1. Stored' = file'.text /\ file' = file
    BY <1>6, CrashKeepsFile DEF Crash, Stored, Pending
  <2>2. CASE \A t \in Threads : thread[t].pc # "write"
    BY <2>1, <2>2, StoredAtRest
  <2>3. CASE \E t \in Threads : thread[t].pc = "write"
    BY <2>1, <2>3 DEF FileInv, LM!Next, LM!Lose
  <2> QED
    BY <2>2, <2>3
<1> QED
  BY <1>1, <1>2, <1>3, <1>4, <1>5, <1>6 DEF Next, PutStarts, ResetStarts, Threads, vars

-----------------------------------------------------------------------------
(* Theorems. *)

\* A file nobody writes that cannot be read: no set gets past reading it.
Broken == ~Readable /\ \A t \in Threads : thread[t].pc \in {"idle", "load"}

LEMMA BrokenStays == TypeOK /\ Broken /\ [Next]_vars => Broken'
<1> SUFFICES ASSUME TypeOK, Broken, [Next]_vars PROVE Broken'
  OBVIOUS
<1>1. ASSUME NEW t \in Threads, NEW d, NEW doc, Start(t, d, doc) PROVE Broken'
  BY <1>1 DEF Start, Set, Broken, Readable, TypeOK
<1>2. ASSUME NEW t \in Threads, Load(t) PROVE Broken'
  BY <1>2 DEF Load, LoadInto, Idle, Broken, Readable, TypeOK
<1>3. ASSUME NEW t \in Threads, Open(t) \/ Write(t) PROVE FALSE
  BY <1>3 DEF Open, Write, Broken
<1>4. CASE Crash
  BY <1>4 DEF Crash, Broken, Readable, Idle
<1>5. CASE UNCHANGED vars
  BY <1>5 DEF vars, Broken, Readable
<1> QED
  BY <1>1, <1>2, <1>3, <1>4, <1>5 DEF Next, PutStarts, ResetStarts, Threads

LEMMA SoundFile == FileInv => AckedServed /\ ReadableAtRest
<1> SUFFICES ASSUME FileInv, AtRest PROVE (Readable => file.text = acked) /\ (~torn => Readable)
  BY DEF AckedServed, ReadableAtRest
<1>1. file.text = acked \/ (torn /\ file.text = Unreadable)
  BY DEF FileInv, AtRest, Idle
<1>2. acked # Unreadable
  BY LayoutFileAssumption DEF FileInv, TypeOK
<1> QED
  BY <1>1, <1>2 DEF Readable

LEMMA BrokenAtRest == AtRest /\ ~Readable => Broken
  BY DEF AtRest, Broken, Idle

LEMMA FileStaysSound ==
  ASSUME OneAtATime
  PROVE  Spec => []FileInv
<1>1. FileInv /\ [Next]_vars => FileInv'
  BY NextKeepsFile
<1> QED
  BY <1>1, FileStarts, PTL DEF Spec

\* The types hold for every set of dashboards and documents and any number of threads, whatever sets
\* overlap and wherever the process is killed.
THEOREM FileTypesHold == Spec => []TypeOK
<1>1. Init => TypeOK
  BY FileStarts DEF FileInv
<1> QED
  BY <1>1, NextKeepsTypes, PTL DEF Spec

\* What was acknowledged is what is served, for every map of dashboards and every size of them,
\* through crashes and restarts, when sets do not overlap (layout_store.py, dashboard_layouts.py).
THEOREM FileServesTheAcked ==
  ASSUME OneAtATime
  PROVE  Spec => []AckedServed
<1>1. FileInv => AckedServed
  BY SoundFile
<1> QED
  BY <1>1, FileStaysSound, PTL

\* Between sets the file can be read, unless a crash has torn it.
THEOREM FileIsReadableAtRest ==
  ASSUME OneAtATime
  PROVE  Spec => []ReadableAtRest
<1>1. FileInv => ReadableAtRest
  BY SoundFile
<1> QED
  BY <1>1, FileStaysSound, PTL

\* A torn file stays unreadable: no sequence of puts, saves, resets and restarts repairs it, sets
\* that overlap included.
THEOREM BrokenStaysBroken == Spec => BrokenForGood
<1>1. Init => TypeOK
  BY FileStarts DEF FileInv
<1>2. Broken => ~Readable
  BY DEF Broken
<1> QED
  BY <1>1, <1>2, NextKeepsTypes, BrokenAtRest, BrokenStays, PTL DEF Spec, BrokenForGood

\* The file implements the map LayoutMap describes: a set takes effect at once, when it empties the
\* file, and a crash before it has written loses everything.
THEOREM FileIsAMap ==
  ASSUME OneAtATime
  PROVE  Spec => AtomicMap
<1>1. FileInv /\ [Next]_vars => FileInv'
  BY NextKeepsFile
<1>2. FileInv /\ [Next]_vars => [LM!Next]_Stored
  BY StepOfMap
<1> QED
  BY <1>1, <1>2, FileStarts, StartOfMap, PTL DEF Spec, AtomicMap, LM!Spec
===============================================================================
