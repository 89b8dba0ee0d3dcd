SPECIFICATION Spec
SYMMETRY Symmetry
CONSTANTS
  Keys = {k1}
  Confirmations = 2
  DelistThreshold = 2
  Values = {v1, v2}
  NoTime = NoTime
  NoRail = NoRail
  Unlisted = Unlisted
  MaxTime = 0
  MaxMissing = 2
  MaxFailures = 1
  MaxRestarts = 1
PROPERTIES
  FeedSpec
