SPECIFICATION FairSpec
CONSTANTS
  Last = 4
  Sessions = {s1}
  Page = 2
  Buffer = 1
  MaxMishaps = 1
  MaxOutages = 1
  MaxAgings = 1
  Transactions <- ThreeTransactions
  Filters <- AllOrSome
INVARIANTS
  LiveStreamHasNoHoles
  BackfillIsComplete
PROPERTIES
  BackfillAscends
  BackfillEnds
