\* Kea and Pi-hole pages; calls served and answered in order, storage reliable.
SPECIFICATION FairSpec
CONSTANTS
  a = a
  b = b
  old = old
  bad = bad
  Docs <- MCDocs
  Layouts <- MCLayouts
  Normalize <- MCNormalize
  Upgrade <- MCUpgrade
  Legacy <- MCLegacy
  Default = a
  Baseline = b
  NoDoc = NoDoc
  Newer = Newer
  Invalid = Invalid
  UNDO_CAP = 1
  MAX_CALLS = 2
  Shells = {"kea", "pihole"}
  InOrder = TRUE
  EarlyEdits = FALSE
  StorageMayFail = FALSE
INVARIANTS SettledMeansSaved PiholeReloadKeepsLayout
PROPERTIES NewerKept ComesToRest AutoSaves
