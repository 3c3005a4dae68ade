SPECIFICATION Spec
CONSTANTS
  Windows = {w1}
  Span <- MCSpan
  Levels = {20}
  RESET_TOLERANCE = 1
  MIN_RESET_DROP = 5
  ANCHOR_LOOKBACK = 4
  CORRECTION = 2
  MaxTime = 5
  MaxRestarts = 1
  MaxTroubles = 2
INVARIANTS
  RestartInvisible
  AnchorIsReal
  PaceFromCurrentWindow
  HealthAgrees
CHECK_DEADLOCK FALSE
