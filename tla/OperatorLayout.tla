---------------------------- MODULE OperatorLayout ----------------------------
(***************************************************************************)
(* Which tiles the Pi-hole page shows for a dashboard document             *)
(* (buildLayoutFromDashboard.ts): those of the server's widgets are added, *)
(* those that need Kea DHCP go while it is off.  A layout is its set of    *)
(* tiles; a widget and the tile made for it are the same value.            *)
(***************************************************************************)
CONSTANTS
  PlainTiles,   \* tiles shown in every mode
  KeaTiles,     \* DHCP, discovery and Fabric summary tiles
  PlainWidgets, \* widgets of sections every node has
  KeaWidgets,   \* widgets of kea_dhcp, peer_telemetry, peer_dhcp
  NoLayout      \* nothing stored

\* A widget the page may show without Kea is not one of the tiles it takes away.
ASSUME WidgetsAssumption == PlainWidgets \cap (KeaTiles \cup KeaWidgets) = {}

Tiles == PlainTiles \cup KeaTiles \cup PlainWidgets \cup KeaWidgets

\* GET /dashboard and GET /v1/meta, as far as the page looks at them.
Documents == [mode : {"kea", "other", "unsaid"},             \* meta.dhcp_mode
              ha : BOOLEAN,                                  \* sections.ha.dhcp_mode says kea
              widgets : SUBSET (PlainWidgets \cup KeaWidgets)]

KeaEnabled(d) == d.mode = "kea" \/ (d.mode = "unsaid" /\ d.ha)

Coherent(d) == KeaEnabled(d) \/ d.widgets \cap KeaWidgets = {}

HiddenTiles == KeaTiles \cup KeaWidgets
EveryWidget(d) == d.widgets   \* deviant: the mode is not looked at
VisibleWidgets(d) == IF KeaEnabled(d) THEN d.widgets ELSE d.widgets \ KeaWidgets

Strip(layout, d) == IF KeaEnabled(d) THEN layout ELSE layout \ HiddenTiles
Merge(layout, d) == layout \cup VisibleWidgets(d)

DefaultLayout(d) == Merge(Strip(PlainTiles \cup KeaTiles, d), d)

PickInitial(stored, d) ==
  IF stored = NoLayout THEN DefaultLayout(d) ELSE Merge(Strip(stored, d), d)

\* What the palette offers: a section tile added from it is no widget's tile, so it is not told apart here.
PaletteTiles(d) == Strip(PlainTiles \cup KeaTiles, d)

\* syncLayoutFromServer: picked afresh once an env apply has gone through, then stripped, then merged
\* unless the editor is open.
SyncedLayout(layout, stored, d, editing, resyncs) ==
  LET picked == IF resyncs THEN Strip(PickInitial(stored, d), d) ELSE layout
      stripped == Strip(picked, d)
  IN  IF editing THEN stripped ELSE Merge(stripped, d)
=============================================================================
