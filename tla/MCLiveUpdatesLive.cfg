SPECIFICATION FairSpec
CONSTANTS
  Accounts = {a1}
  MaxPolls = 1
  MaxLoads = 0
  MaxRestarts = 1
  MaxMismatches = 0
  MaxBreaks = 1
  MaxSkews = 1
  MaxKeys = 0
  MaxQueued = 2
PROPERTIES
  Recovers

