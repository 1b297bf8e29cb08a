CONSTANTS
  r1 = r1
  r2 = r2
  Requests = {r1}
  Wanted <- OneDownload
  Refusals <- SomeRefusals
  Cap = 1
  MaxSize = 2
SPECIFICATION Spec
CHECK_DEADLOCK FALSE
INVARIANT PartialDownloadIsNoticed
