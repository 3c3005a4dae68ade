SPECIFICATION Spec
CONSTANTS
  StartLayout <- MCStart
  Layouts <- MCLayouts
  Sessions <- MCSessions
  Span <- MCSpan
  SlowTtl = 2
  Header = Header
  History <- MCHistory
  StartTime = 4
  MaxTime = 5
  MaxChanges = 2
  MaxDropped = 1
  MaxKeys = 2
  MaxPushes = 2
INVARIANTS
  PanWithinHistory
PROPERTIES
  CursorFollowsPages
CHECK_DEADLOCK FALSE
