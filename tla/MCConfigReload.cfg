SPECIFICATION FairSpec
CONSTANTS
  Texts <- MCTexts
  Edits <- MCEdits
  MIN_POLL_INTERVAL_SECS = 10
  MAX_POLL_INTERVAL_SECS = 100
  DEFAULT_POLL_INTERVAL = 50
  QuietStart = TRUE
  MaxSaves = 2
  MaxRequests = 1
  MaxOutages = 1
  MaxCrashes = 1
  MaxNoise = 1
INVARIANTS
  CaughtUp
  SavesTakeEffect
PROPERTY FileTakesEffect
CHECK_DEADLOCK FALSE
