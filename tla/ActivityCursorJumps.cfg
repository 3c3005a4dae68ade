SPECIFICATION LogSpec
CONSTANTS
  Limit = 3
  Screen = 2
  Page = 2
  LongPolls <- MCLongPolls
  HealthRows = 3
  Configs <- MCConfigs
  MaxPolls = 4
  MaxKeys = 5
CHECK_DEADLOCK FALSE
PROPERTIES
  CursorKeepsPlace
