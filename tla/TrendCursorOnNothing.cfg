SPECIFICATION SpecRelisted
CONSTANTS
  StartLayout <- MCStart
  Layouts <- MCLayouts
  Sessions <- MCSessions
  Span <- MCSpan
  SlowTtl = 2
  Header = Header
  History <- MCHistory
  StartTime = 4
  MaxTime = 5
  MaxChanges = 3
  MaxDropped = 0
  MaxKeys = 3
  MaxPushes = 2
INVARIANTS
  CursorOnReading
CHECK_DEADLOCK FALSE
