SPECIFICATION Spec
CONSTANTS
  Intervals = {10}
  RetryAfters = {0, 60}
  MAX_BACKOFF = 40
  CREDENTIAL_RECHECK_MAX = 5
  StrikesMax = 2
  CredentialSource = "keychain"
  MaxEdits = 2
  MaxTriggers = 1
INVARIANT ClientNotMisled
CHECK_DEADLOCK FALSE
