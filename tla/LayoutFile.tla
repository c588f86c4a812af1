------------------------------ MODULE LayoutFile ------------------------------
(***************************************************************************)
(* dashboard-layouts.json and its writers (layout_store.py,                *)
(* layout_service.py).  PUT and save-file are async handlers: each runs on *)
(* the event loop from its read of the file to its write without giving it *)
(* up.  Reset is a plain function, which the framework runs on a pool      *)
(* thread beside the loop.  Every set reads the whole file, replaces one   *)
(* dashboard and writes the whole file back, and opening it for writing    *)
(* empties it first.                                                       *)
(*                                                                         *)
(* A GET changes nothing: what it would answer is Served.                  *)
(***************************************************************************)
EXTENDS Naturals

CONSTANTS
  Dashboards, Docs,
  NoDoc,        \* no document for this dashboard
  Baseline,     \* [Dashboards -> Docs \cup {NoDoc}], dashboard-layouts.orig.json
  Size,         \* [Maps -> Nat], bytes of the file's text
  Loop,         \* the event loop's thread
  Pool,         \* the pool's threads
  Unreadable,   \* text that is no JSON: empty, cut short or followed by a tail
  Overlap       \* environment: a set may start while another is running

Maps == [Dashboards -> Docs \cup {NoDoc}]

ASSUME LayoutFileAssumption ==
  /\ NoDoc \notin Docs /\ Loop \notin Pool /\ Unreadable \notin Maps
  /\ Baseline \in Maps /\ Size \in [Maps -> Nat]
  /\ Overlap \in BOOLEAN

VARIABLES
  file,         \* its text, parsed, and its length
  thread,       \* what each thread is doing
  acked,        \* the document of the last set that ended, for each dashboard
  torn          \* the process has been killed between opening the file and writing it

vars == <<file, thread, acked, torn>>

Threads == Pool \cup {Loop}
Idle == [pc |-> "idle"]
Set(d, doc) == [pc |-> "load", dashboard |-> d, doc |-> doc]

TypeOK ==
  /\ file \in [text : Maps \cup {Unreadable}, size : Nat]
  /\ thread \in [Threads -> {Idle} \cup [pc : {"load"}, dashboard : Dashboards, doc : Docs]
                   \cup [pc : {"open", "write"}, dashboard : Dashboards, doc : Docs, all : Maps]]
  /\ acked \in Maps /\ torn \in BOOLEAN

-----------------------------------------------------------------------------
LoneMerged(all, d, doc) == [x \in Dashboards |-> IF x = d THEN doc ELSE NoDoc]   \* deviant: starts from {}
Merged(all, d, doc) == [all EXCEPT ![d] = doc]

\* Two writers may hold the file open: the shorter text leaves the longer one's tail behind it.
Overlaid(old, all) ==
  IF Size[all] >= old.size THEN [text |-> all, size |-> Size[all]]
  ELSE [text |-> Unreadable, size |-> old.size]

Init ==
  /\ acked \in Maps
  /\ file = [text |-> acked, size |-> Size[acked]]
  /\ thread = [t \in Threads |-> Idle]
  /\ torn = FALSE

Start(t, d, doc) ==
  /\ thread[t] = Idle
  /\ Overlap \/ \A u \in Threads : thread[u] = Idle
  /\ thread' = [thread EXCEPT ![t] = Set(d, doc)]
  /\ UNCHANGED <<file, acked, torn>>

\* put_layout and save_layout_to_file, for a body that validates.
PutStarts(d, doc) == Start(Loop, d, doc)

\* reset_layout_from_orig, for a dashboard the baseline file has.
ResetStarts(t, d) == Baseline[d] # NoDoc /\ Start(t, d, Baseline[d])

LoadInto(t, all) ==
  thread' = [thread EXCEPT ![t] = [pc |-> "open", dashboard |-> thread[t].dashboard,
               doc |-> thread[t].doc, all |-> Merged(all, thread[t].dashboard, thread[t].doc)]]

TolerantLoad(t) ==   \* deviant: a file that does not parse counts as {}
  /\ thread[t].pc = "load"
  /\ LoadInto(t, IF file.text = Unreadable THEN [d \in Dashboards |-> NoDoc] ELSE file.text)
  /\ UNCHANGED <<file, acked, torn>>

StaleLoad(t) ==   \* deviant: what could not be parsed is written back as it is
  /\ thread[t].pc = "load"
  /\ IF file.text # Unreadable THEN LoadInto(t, file.text)
     ELSE thread' = [thread EXCEPT ![t] = [pc |-> "open", dashboard |-> thread[t].dashboard,
                       doc |-> thread[t].doc, all |-> Unreadable]]
  /\ UNCHANGED <<file, acked, torn>>

\* _load_all.  json.loads raises on a file that does not parse: 500, and the set ends there.
Load(t) ==
  /\ thread[t].pc = "load"
  /\ \/ file.text # Unreadable /\ LoadInto(t, file.text)
     \/ file.text = Unreadable /\ thread' = [thread EXCEPT ![t] = Idle]
  /\ UNCHANGED <<file, acked, torn>>

KeepingOpen(t) ==   \* deviant: opened without truncating
  /\ thread[t].pc = "open"
  /\ thread' = [thread EXCEPT ![t].pc = "write"]
  /\ file' = [file EXCEPT !.text = Unreadable]
  /\ UNCHANGED <<acked, torn>>

\* write_text opens the file with "w": it is empty from here to the write.
Open(t) ==
  /\ thread[t].pc = "open"
  /\ thread' = [thread EXCEPT ![t].pc = "write"]
  /\ file' = [text |-> Unreadable, size |-> 0]
  /\ UNCHANGED <<acked, torn>>

Write(t) ==
  /\ thread[t].pc = "write"
  /\ file' = Overlaid(file, thread[t].all)
  /\ acked' = [acked EXCEPT ![thread[t].dashboard] = thread[t].doc]
  /\ thread' = [thread EXCEPT ![t] = Idle]
  /\ UNCHANGED torn

\* The process is killed and started again: nothing is read or repaired at startup.
Crash ==
  /\ \E t \in Threads : thread[t] # Idle
  /\ thread' = [t \in Threads |-> Idle]
  /\ torn' = (torn \/ \E t \in Threads : thread[t].pc = "write")
  /\ UNCHANGED <<file, acked>>

Next ==
  \/ \E d \in Dashboards, doc \in Docs : PutStarts(d, doc)
  \/ \E t \in Pool, d \in Dashboards : ResetStarts(t, d)
  \/ \E t \in Threads : Load(t) \/ Open(t) \/ Write(t)
  \/ Crash

Spec == Init /\ [][Next]_vars

-----------------------------------------------------------------------------
(* Properties. *)

AtRest == \A t \in Threads : thread[t] = Idle
Readable == file.text # Unreadable

\* Every dashboard is served the document of the last set that ended for it, whatever sets of
\* other dashboards and crashes came between (layout_store.py: "JSON file store for dashboard
\* layouts (per dashboard id)").
AckedServed == AtRest /\ Readable => file.text = acked

\* Only a process killed between opening and writing leaves a file that cannot be read.
ReadableAtRest == AtRest /\ ~torn => Readable

\* No call repairs a file that cannot be read: put, save-file and reset all read it first.
BrokenForGood == [](AtRest /\ ~Readable => []~Readable)

\* The file is an atomic map of dashboards: it changes when a set opens it, and a crash may lose it.
Pending == {t \in Threads : thread[t].pc = "write"}
Stored == IF Pending = {} THEN file.text ELSE thread[CHOOSE t \in Pending : TRUE].all
LM == INSTANCE LayoutMap WITH
  Documents <- Docs \cup {NoDoc}, Lost <- Unreadable, stored <- Stored
AtomicMap == LM!Spec
=============================================================================
