------------------------------ MODULE LayoutMap ------------------------------
(* What the API promises of the layouts it keeps: one document per dashboard, *)
(* replaced whole, one at a time.  A crash may lose the whole map, and a lost *)
(* map does not come back by itself.                                          *)
CONSTANTS Dashboards, Documents, Lost
VARIABLE stored

Init == stored \in [Dashboards -> Documents]
Put(d, doc) == stored # Lost /\ stored' = [stored EXCEPT ![d] = doc]
Lose == stored' = Lost

Next == Lose \/ \E d \in Dashboards, doc \in Documents : Put(d, doc)
Spec == Init /\ [][Next]_stored
=============================================================================
