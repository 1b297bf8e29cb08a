CONSTANTS
  Slugs = {i1}
  None = None
  Validity = 4
  MinAge = 1
  RenewAge = 2
  Ages = {0, 1}
  MaxNow = 4
  MaxTokens = 2
  MaxRestarts = 0
SPECIFICATION Spec
CHECK_DEADLOCK FALSE
INVARIANT NoSilentExpiry
