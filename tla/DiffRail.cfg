SPECIFICATION Spec
CONSTANTS
  Keys = {k1}
  Confirmations = 3
  DelistThreshold = 3
  Values = {v1}
  NoTime = NoTime
  NoRail = NoRail
  Unlisted = Unlisted
  MaxTime = 2
  MaxMissing = 3
  MaxFailures = 1
  MaxRestarts = 1
INVARIANTS
  FeedAgrees
  TalliesMatchStreaks
PROPERTIES
  StoredStatusIsConfirmed
  OutagesDatedInStreak
  DelistingsConfirmed
