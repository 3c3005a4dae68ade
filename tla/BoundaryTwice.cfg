SPECIFICATION Spec
CONSTANTS
  MIN_SAMPLE = 5
  RESET_TOLERANCE = 2
  LOOK_MIN = 15
  LOOK_MAX = 720
  GAP_MIN = 10
  MAX_HISTORY_POINTS = 4
  HOUR = 2
  HOURS = 24
  Rates = {}
  RateTicks = 1
  Ticks = 5
  MaxMissing = 0
  WeekSpan = 300
  RECENT_SPAN = 7
  RECENT_MAX_POINTS = 4
  Usages = {}
  Starts = {60}
INVARIANT BoundaryDrawnOnce
CHECK_DEADLOCK FALSE
