\* Two dashboards, one pool thread; sets one at a time, and crashes anywhere.
SPECIFICATION Spec
CONSTANTS
  home = home
  lab = lab
  short = short
  long = long
  NoDoc = NoDoc
  Dashboards <- MCDashboards
  Docs <- MCDocs
  Baseline <- MCBaseline
  Size <- MCSize
  Loop = loop
  Pool = {pool1}
  Unreadable = Unreadable
  Overlap = FALSE
INVARIANTS TypeOK AckedServed ReadableAtRest
PROPERTIES BrokenForGood AtomicMap
