CONSTANTS
  Handlers = {h1, h2}
  Batches = {acct, alien, big}
  Nobody = Nobody
  own = own
  other = other
  acct = acct
  alien = alien
  big = big
  Ids = {own, other}
  NoId = NoId
  Batch <- Mixed
  Registered <- First
  Statuses = {200, 302, 503}
  AtOnce = 1
  MaxPosts = 2
  MaxLapses = 1
  MaxChanges = 1
SPECIFICATION FairSpec
CHECK_DEADLOCK FALSE
INVARIANTS
  NoSilentLoss
  CountersFollowAnswers
  OnlyTheirsLeaves
PROPERTIES
  WebhookIsAnswered
