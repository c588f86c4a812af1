\* Two PUTs may be served in either order.
SPECIFICATION Spec
CONSTANTS
  a = a
  b = b
  old = old
  bad = bad
  Docs <- MCDocs
  Layouts <- MCLayouts
  Normalize <- MCNormalize
  Upgrade <- MCUpgrade
  Legacy <- MCLegacy
  Default = a
  Baseline = b
  NoDoc = NoDoc
  Newer = Newer
  Invalid = Invalid
  UNDO_CAP = 1
  MAX_CALLS = 2
  Shells = {"kea"}
  InOrder = FALSE
  EarlyEdits = FALSE
  StorageMayFail = FALSE
PROPERTY PutMeansSaved
