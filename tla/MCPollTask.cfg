SPECIFICATION FairSpec
CONSTANTS
  Intervals = {10, 50}
  RetryAfters = {0, 60}
  MAX_BACKOFF = 40
  CREDENTIAL_RECHECK_MAX = 5
  StrikesMax = 3
  CredentialSource = "file"
  MaxEdits = 3
  MaxTriggers = 1
INVARIANTS
  CadenceIsTruthful
  BackoffHonoured
  AtMostOneLatePoll
  ClientNotMisled
PROPERTIES
  PollsAreSpaced
  ProbingResumes
  TriggersAreServed
CHECK_DEADLOCK FALSE
