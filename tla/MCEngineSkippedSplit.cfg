SPECIFICATION Spec
CONSTANTS
  Tickers <- OneTicker
  Calendar <- FourSessions
  Feed <- FeedWithoutThird
  Bars <- CalmBars
  NoBar = NoBar
  CorporateActions <- SplitOnThird
  Universes <- OnlyListed
  Targets <- OneTickerTargets
  NoTargets = NoTargets
  KillSwitch <- NeverKilled
  Config <- MarketGtc
  Risk <- Lax
  Quantities = {1, 2, 3, 4}
PROPERTIES
  NoActionSkipped
