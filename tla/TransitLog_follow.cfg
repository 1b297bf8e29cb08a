CONSTANTS
  Slugs = {i1}
  Numbers = {n1}
  Everyone = Everyone
  FirstLines = 1
  MaxLines = 3
  MaxDeletions = 1
SPECIFICATION Spec
CHECK_DEADLOCK FALSE
INVARIANT
  NoLineIsLost
