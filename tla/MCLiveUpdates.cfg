SPECIFICATION Spec
CONSTANTS
  Accounts = {a1, a2}
  MaxPolls = 2
  MaxLoads = 1
  MaxRestarts = 1
  MaxMismatches = 1
  MaxBreaks = 0
  MaxSkews = 0
  MaxKeys = 1
  MaxQueued = 2
INVARIANTS
  PollsShown
  LoopsBounded
SYMMETRY Symmetry
