---------------------------- MODULE MCLayoutFile ----------------------------
(* Two dashboards and two documents, one longer than the other; the baseline  *)
(* file has a layout for one of the dashboards.                               *)
EXTENDS LayoutFile, Functions, TLC

CONSTANTS home, lab, short, long

MCDashboards == {home, lab}
MCDocs == {short, long}
MCBaseline == home :> short @@ lab :> NoDoc
DocSize == NoDoc :> 0 @@ short :> 1 @@ long :> 2
MCSize == [all \in Maps |-> FoldFunction(+, 0, [d \in Dashboards |-> DocSize[all[d]]])]
=============================================================================
