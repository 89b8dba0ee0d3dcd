SPECIFICATION FairUISpec
CONSTANTS
  Last = 3
  Sessions = {s1, s2}
  Page = 1
  Buffer = 1
  MaxMishaps = 1
  MaxOutages = 1
  MaxAgings = 0
  MaxChanges = 1
  NoSocket = NoSocket
  Transactions <- PairAndOne
  Filters <- AllOrSome
  FirstFilter <- AllEvents
CHECK_DEADLOCK FALSE
INVARIANTS
  NothingElseIsLost
PROPERTIES
  FeedComesBack
