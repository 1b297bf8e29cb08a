CONSTANTS
  Handlers = {h1, h2}
  Batches = {acct, alien, big}
  Nobody = Nobody
  own = own
  other = other
  acct = acct
  alien = alien
  big = big
  Ids = {own, other}
  NoId = NoId
  Batch <- Mixed
  Registered <- First
  Statuses = {200, 302, 404, 422, 503}
  AtOnce = 1
  MaxPosts = 1
  MaxLapses = 0
  MaxChanges = 0
SPECIFICATION Spec
CHECK_DEADLOCK FALSE
INVARIANT RedirectAlarms
