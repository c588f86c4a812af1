SPECIFICATION Spec
CONSTANTS
  RowIds <- MCRowIds
  Values <- MCValues
  BadValue = 0
  NoValue = NoValue
  Tables <- MCTables
  PageSizes = {2}
  Totals = {0, 2}
  QueryLimit = 1
  LogPageSizes = {1, 2}
  QuerySlots = {1, 2}
  NoQuery = NoQuery
  EventBound = 2
  Unknown = Unknown
INVARIANTS
  TypeOK
  PageIsShown
  OneSaveAtATime
  LogsMatchPager
PROPERTIES
  EditsLostBySaveOnly
  TypedOnlySent
  SaveAllLeavesNoneDirty
  ListCatchesUp
  PageQueryEnds
  ScanCatchesUp
