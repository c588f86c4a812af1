SPECIFICATION Spec
CONSTANTS
  Settings <- MCSettings
  None = None
  HostConfigs <- MCHostConfigs
  OpSlots = {1, 2}
  MAX_PRESSES = 2
  MAX_ASKS = 1
  PlainTiles = {"t"}
  KeaTiles = {"k"}
  PlainWidgets = {"w"}
  KeaWidgets = {"wk"}
  NoLayout = NoLayout
  Origins = {east, west}
  NoOrigin = NoOrigin
  SAMPLES = 2
  MAX_STREAMS = 3
  MAX_LOADS = 2
  MAX_TICKS = 2
  Scenes = {"streams", "settings", "widgets"}
  PageDocuments <- MCPageDocuments
CHECK_DEADLOCK FALSE
INVARIANTS TypeOK OneStream SlotMeansStream AppStreamFollowsBase ClosedShowsServer
PROPERTIES LeavesNothingOpen FinishedMeansApplied BusyEnds
