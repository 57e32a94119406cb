SPECIFICATION Spec
CONSTANTS
  Tickers <- TwoTickers
  Calendar <- ThreeSessions
  Feed <- ThreeSessions
  Bars <- PartialBars
  NoBar = NoBar
  CorporateActions <- NoActions
  Universes <- MayDelist
  Targets <- TwoTickerTargets
  NoTargets = NoTargets
  KillSwitch <- MayBeKilled
  Config <- MarketDay
  Risk <- Lax
  Quantities = {1, 2, 3, 4}
PROPERTIES
  LifecycleRefined
