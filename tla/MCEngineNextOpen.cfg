SPECIFICATION Spec
CONSTANTS
  Tickers <- TwoTickers
  Calendar <- SixSessions
  Feed <- FeedWithGap
  Bars <- PartialBars
  NoBar = NoBar
  CorporateActions <- ReverseThenDividend
  Universes <- AllListed
  Targets <- TwoTickerTargets
  NoTargets = NoTargets
  KillSwitch <- NeverKilled
  Config <- MarketGtcCosts
  Risk <- Lax
  Quantities = {1, 2, 3, 4}
INVARIANTS
  TypeOK
  NoLeverageNoShort
  FillsExplainBooks
  OpenOrdersCarried
  OrderStatusesMatch
  SignalsExecuteOnTime
PROPERTIES
  NoDuplicateOrders
  SplitKeepsEquity
