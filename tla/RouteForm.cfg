SPECIFICATION Spec
CONSTANTS
  btc = btc
  wbtc = wbtc
  main = main
  side = side
  okx = okx
  upbit = upbit
  NoAmount = NoAmount
  NoRail = NoRail
  NoOptions = NoOptions
  NoChain = NoChain
  Coins = {btc, wbtc}
  Chains = {main, side}
  Exchanges = {okx, upbit}
  Keys <- RailKeys
  Readers = {"rails", "events", "form", "fees"}
  Rows <- Stored
  Amounts = {0, 1, 2}
  Asked = {0, 100, 200}
  LastEvent = 4
  Limit = 2
  Families <- Equivalents
  NamesOf <- Named
  MaxRequests = 2
CHECK_DEADLOCK FALSE
INVARIANTS
  PagesAreComplete
  EstimatesAreExact
  OffersLeadToRoutes
