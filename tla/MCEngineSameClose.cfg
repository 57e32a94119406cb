SPECIFICATION Spec
CONSTANTS
  Tickers <- TwoTickers
  Calendar <- ThreeSessions
  Feed <- ThreeSessions
  Bars <- LimitBars
  NoBar = NoBar
  CorporateActions <- NoActions
  Universes <- AllListed
  Targets <- RotatingTargets
  NoTargets = NoTargets
  KillSwitch <- NeverKilled
  Config <- SameCloseLimitGtc
  Risk <- OnePosition
  Quantities = {1, 2, 3, 4}
INVARIANTS
  VolumeCapShared
  OlderOrdersTradeFirst
  PositionCountLimited
