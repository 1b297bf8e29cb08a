CONSTANTS
  Handlers = {h1, h2}
  Consumers = {c1}
  Keys = {k1}
  Hashes = {q1, q2}
  NoHash = NoHash
  Nobody = Nobody
  Legacy <- OneLegacyRow
  TTL = 2
  Deadline = 1
  ServerErrorMayFollowCreation = TRUE
  MaxNow = 4
  MaxReservations = 3
SPECIFICATION FairSpec
INVARIANTS
  OneMessagePerKey
  AckIsTheRequest
  HolderOwnsItsRow
PROPERTIES
  KeyIsFreedOnlyWhenNothingWasSent
  KeepsTheContract
  RequestIsAnswered
  KeyIsFreedInTheEnd
