\* The banner's button in the Pi-hole bundle.
SPECIFICATION Spec
CONSTANTS
  a = a
  b = b
  old = old
  bad = bad
  Docs <- MCDocs
  Layouts <- MCLayouts
  Normalize <- MCNormalize
  Upgrade <- MCUpgrade
  Legacy <- MCLegacy
  Default = a
  Baseline = b
  NoDoc = NoDoc
  Newer = Newer
  Invalid = Invalid
  UNDO_CAP = 1
  MAX_CALLS = 2
  Shells = {"pihole"}
  InOrder = TRUE
  EarlyEdits = FALSE
  StorageMayFail = FALSE
PROPERTY ClearUnlocks
