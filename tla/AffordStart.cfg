SPECIFICATION Spec
CONSTANTS
  MIN_SAMPLE = 1
  RESET_TOLERANCE = 1
  LOOK_MIN = 1
  LOOK_MAX = 3
  GAP_MIN = 2
  MAX_HISTORY_POINTS = 4
  HOUR = 2
  HOURS = 24
  Rates = {0, 1, 2, 3, 5, 8, 9}
  RateTicks = 4
  Ticks = 8
  MaxMissing = 2
  WeekSpan = 42
  RECENT_SPAN = 7
  RECENT_MAX_POINTS = 4
  Usages = {0, 1, 333, 900, 999, 1000}
  Starts = {0, 5, 21, 38}
INVARIANT UnmarkedIgnoresStart
CHECK_DEADLOCK FALSE
