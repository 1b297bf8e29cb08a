CONSTANTS
  r1 = r1
  r2 = r2
  Requests = {r1, r2}
  Wanted <- AnyBesideARead
  Refusals <- SomeRefusals
  Cap = 1
  MaxSize = 3
SPECIFICATION FairSpec
CHECK_DEADLOCK FALSE
INVARIANTS
  NothingHappenedIsTrue
  MediaFitsItsCap
  WhatWasLeftIsTold
PROPERTIES
  EveryRequestIsAnswered
