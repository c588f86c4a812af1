\* Storage that may throw, edits before hydration, no baseline file.
SPECIFICATION Spec
CONSTANTS
  a = a
  b = b
  old = old
  bad = bad
  Docs <- MCFewDocs
  Layouts <- MCLayouts
  Normalize <- MCFewNormalize
  Upgrade <- MCFewUpgrade
  Legacy <- MCFewLegacy
  Default = a
  Baseline = NoDoc
  NoDoc = NoDoc
  Newer = Newer
  Invalid = Invalid
  UNDO_CAP = 2
  MAX_CALLS = 2
  Shells = {"kea", "pihole"}
  InOrder = TRUE
  EarlyEdits = TRUE
  StorageMayFail = TRUE
INVARIANTS TypeOK UndoBounded
PROPERTIES HistoryIsALine
