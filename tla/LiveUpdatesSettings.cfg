SPECIFICATION Spec
CONSTANTS
  Accounts = {a1, a2}
  MaxPolls = 0
  MaxLoads = 1
  MaxRestarts = 0
  MaxMismatches = 0
  MaxBreaks = 0
  MaxSkews = 0
  MaxKeys = 0
  MaxQueued = 2
INVARIANT
  SettingsShown

