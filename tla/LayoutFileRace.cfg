\* Two dashboards, one pool thread; a reset beside a put.
SPECIFICATION Spec
CONSTANTS
  home = home
  lab = lab
  short = short
  long = long
  NoDoc = NoDoc
  Dashboards <- MCDashboards
  Docs <- MCDocs
  Baseline <- MCBaseline
  Size <- MCSize
  Loop = loop
  Pool = {pool1}
  Unreadable = Unreadable
  Overlap = TRUE
INVARIANT AckedServed
