SPECIFICATION Spec
CONSTANTS
  Texts <- MCTexts
  Edits <- Repairs
  MIN_POLL_INTERVAL_SECS = 10
  MAX_POLL_INTERVAL_SECS = 100
  DEFAULT_POLL_INTERVAL = 50
  QuietStart = TRUE
  MaxSaves = 1
  MaxRequests = 1
  MaxOutages = 0
  MaxCrashes = 0
  MaxNoise = 0
INVARIANTS
  InEffect
CHECK_DEADLOCK FALSE
