SPECIFICATION Spec
CONSTANTS
  Accounts = {a1, a2}
  MaxPolls = 0
  MaxLoads = 0
  MaxRestarts = 2
  MaxMismatches = 0
  MaxBreaks = 0
  MaxSkews = 0
  MaxKeys = 0
  MaxQueued = 2
INVARIANT
  OneUpdateLoop

