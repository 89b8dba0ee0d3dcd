SPECIFICATION Spec
SYMMETRY Symmetry
CONSTANTS
  Replicas = {p1, p2}
  Conns = {a, b}
  Events = {e1}
  Chats = {c1}
  Rules = {r1, r2}
  MaxAttempts = 2
  ScanLimit = 1
  Batch = 2
  MaxTime = 2
  MaxResets = 1
  MaxMishaps = 1
  MaxLockLoss = 1
  c1 = c1
  r1 = r1
  r2 = r2
  e1 = e1
  NoTime = NoTime
  NoJob = NoJob
  Nobody = Nobody
  RuleChat <- TwoRulesChat
  RuleWants <- TwoRulesWants
INVARIANTS
  OneDispatcher
  DuplicatesNeedMishaps
  SentWasDelivered
  NoStaleAlerts
PROPERTIES
  SentIsFinal
