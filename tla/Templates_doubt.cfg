CONSTANTS
  r1 = r1
  r2 = r2
  en = en
  Requests = {r1, r2}
  Languages = {en, pt}
  Rereads = 3
  Wanted <- DeletionBeside
  Refusals <- SomeRefusals
  MaxManual = 1
SPECIFICATION FairSpec
CHECK_DEADLOCK FALSE
INVARIANTS
  CreatedIsThere
  DeletedIsGone
  DoubtIsOwnedUp
PROPERTIES
  TemplateIsAnswered
