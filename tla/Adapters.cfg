SPECIFICATION Spec
CONSTANTS
  A = A
  B = B
  AX = AX
  LA = LA
  n1 = n1
  n2 = n2
  n3 = n3
  NoName = NoName
  NoAmount = NoAmount
  Venues = {"binance", "bithumb", "bitget", "bitmart", "bybit", "coinex", "gate", "htx", "kucoin", "okx", "upbit", "whitebit"}
  Coins = {A, B, AX, LA}
  Nets = {n1, n2, n3}
  Chains = {n1, n2, A, B, AX, LA}
  Amounts = {0, 1, 2}
  Markets <- Kinds
  ShortName <- Tickers
  WrappedAs <- Wraps
  BareNet <- Bare
  ChainOf <- ChainTable
  CoinOf <- CoinTable
  MaxSlips = 2
INVARIANTS
  ListedRailsAreTold
  OpenWasSaid
  ClosedWasSaid
  FeeTypeTellsTheFee
CHECK_DEADLOCK FALSE
