CONSTANTS
  Validity = 1
  Deadline = 1
  MaxNow = 1
  MaxTokens = 1
SPECIFICATION Spec
CHECK_DEADLOCK FALSE
INVARIANT
  RefusedIsRefused
