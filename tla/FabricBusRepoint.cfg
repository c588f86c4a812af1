\* The first base the control plane names.
SPECIFICATION Spec
CONSTANTS
  Origins = {east, west}
  NoOrigin = NoOrigin
  SAMPLES = 2
  MAX_STREAMS = 4
  MAX_LOADS = 2
  MAX_TICKS = 2
CHECK_DEADLOCK FALSE
INVARIANT StreamFollowsBase
