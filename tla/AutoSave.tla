------------------------------ MODULE AutoSave ------------------------------
(* What the layout store promises of the document it edits: the user is told   *)
(* "saved" only while the stored copy is the document on screen, and a saved   *)
(* document starts to differ only by going through "saving".                   *)
CONSTANT Documents
VARIABLES doc, stored, status

vars == <<doc, stored, status>>

Init ==
  /\ doc \in Documents /\ stored \in Documents
  /\ status \in {"saving", "detached"}

\* The document changes on screen.
Change == doc' \in Documents /\ status' = "saving" /\ UNCHANGED stored
\* A write reaches the store, not always the last one, while the outcome is still open.
Write == status = "saving" /\ stored' \in Documents /\ UNCHANGED <<doc, status>>
\* The outcome: saved means equal.
Saved ==
  /\ status = "saving" /\ status' = "saved"
  /\ doc' = stored /\ UNCHANGED stored
\* Not saved: an error is shown, or the document stays detached from the store.
NotSaved ==
  /\ status' \in {"failed", "detached"} /\ doc' \in Documents
  /\ status \in {"saving", "failed", "detached"} \/ doc' = doc
  /\ stored' = stored \/ (status = "saving" /\ stored' \in Documents)

Next == Change \/ Write \/ Saved \/ NotSaved
Spec == Init /\ [][Next]_vars
=============================================================================
