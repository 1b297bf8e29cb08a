CONSTANTS
  Numbers = {"n1"}
  Tokens = {t1, t2}
  Smokes = {"s1"}
  Workers = {w1, w2}
  Types = {"whatsapp", "instagram"}
  Window = 1
  Horizon = 3
  MaxLives = 2
  Nodes = {"a", "b"}
  Handlers = {"h1", "h2"}
  Keys = {"k1"}
  Nobody = "nobody"
  FileValidity = 1
  LeaseTTL = 2
  PairEnd = 5
  MaxTakeovers = 3
  Slugs = {"i1"}
  NoSlug = "none"
  TokenValidity = 4
  MinAge = 1
  RenewAge = 2
  Ages = {0, 1}
  RenewalEnd = 6
  MaxTokens = 3
  MaxRestarts = 1
  Deadline = 1
  NumberEnd = 3
  MaxLimit = 2
  MaxUpdates = 3
  VerdictValidity = 1
  WatchdogEnd = 3
  MaxCredentials = 2
  Deliverers = {"d1", "d2"}
  CallbackTimeout = 2
  KeepAlive = 1
  CertificateEnd = 5
  MaxSwaps = 2
  ProbeValues = {"up", "down"}
  ProbeValidity = 2
  ProbeDeadline = 1
  ProbeEnd = 6
  LossWindow = 2
  SeriesCount = 3
  SeriesWindow = 2
  Reminder = 2
  Deliveries = 5
  AlertEnd = 5
  Threshold = 2
  RefusalWindow = 2
  MaxRefusals = 7
  RefusalEnd = 5
  LogSlugs = {"i1", "i2"}
  Counterparties = {"n1", "n2"}
  Everyone = "everyone"
  FirstLines = 1
  MaxLines = 3
  MaxDeletions = 2
  CounterDay = 2
  RetentionDays = 3
  ShortDays = 2
  Patience = 2
  CounterEnd = 8
  MaxEvents = 2
SPECIFICATION Spec
SYMMETRY LifecycleSymmetry
CHECK_DEADLOCK FALSE
INVARIANTS
  NoLossIsForgotten
  SeriesIsWhatFailed
  ActiveWasProved
  RegistrationsFitOneWindow
  SentIsOwnedUp
  NumbersDieWithTheInstance
  PairActsAsOne
  PostMortemIsRight
  UnexpiredIsAccepted
  OwnersTokenIsKept
  ExpiryWasAnnounced
  MonitorsDescribeNow
  ObservationsAreRecent
  FollowIsNotBlind
PROPERTY
  RemovedOnlyWhilePaused
