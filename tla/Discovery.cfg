SPECIFICATION DiscoverySpec
CONSTANTS
  KeychainFallback = TRUE
  MaxChanges = 2
  MaxLoads = 3
  MaxStarts = 2
INVARIANTS StartedOnce EmptinessExplained
PROPERTY LoginNoticed
CHECK_DEADLOCK FALSE
