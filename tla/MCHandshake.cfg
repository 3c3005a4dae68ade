SPECIFICATION Spec
CONSTANTS
  Versions <- MCVersions
  MaxAttempts = 2
INVARIANTS
  RejectNotLost
PROPERTIES
  ImplementsVerdict
  AttemptEnds
CHECK_DEADLOCK FALSE
