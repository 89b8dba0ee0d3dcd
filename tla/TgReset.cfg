SPECIFICATION Spec
CONSTANTS
  Replicas = {p1}
  Conns = {a}
  Events = {e1}
  Chats = {c1}
  Rules = {r1}
  MaxAttempts = 2
  ScanLimit = 1
  Batch = 2
  MaxTime = 1
  MaxResets = 1
  MaxMishaps = 0
  MaxLockLoss = 0
  c1 = c1
  r1 = r1
  r2 = r2
  e1 = e1
  NoTime = NoTime
  NoJob = NoJob
  Nobody = Nobody
  RuleChat <- OneRuleChat
  RuleWants <- OneRuleWants
PROPERTIES
  ResetStopsAlerts
