SPECIFICATION FairSpec
CONSTANTS
  c = c
  d = d
  any = any
  Replicas = {r1, r2}
  Chats = {c, d}
  Allowed = {c}
  Steps = {"exchange", "token", "chain"}
  Options <- Offered
  Buttons <- Carried
  Known <- Resolved
  Wild = any
  Scripts <- Dialogues
  Cap = 2
  MaxMishaps = 1
INVARIANTS
  RulesWithinCap
  HandledOncePerLife
  ConfirmedWasBegun
  SettledAsIfAtomic
  SavesWhatIsPicked
PROPERTIES
  EveryUpdateIsBegun
