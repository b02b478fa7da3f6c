SPECIFICATION Spec
CONSTANTS
  m1 = m1
  m2 = m2
  s1 = s1
  s2 = s2
  s3 = s3
  baseline = baseline
  greed = greed
  NoPrice = NoPrice
  NoTxn = NoTxn
  MarketOf <- MCMarketOf
  SideOf <- MCSideOf
  EventOf <- MCEventOf
  SignalPrice <- MCSignalPrice
  StartingBankroll = 100000
  CalibrationConfig <- MCCalibrationConfig
  PastTrades <- MCPastTrades
  Portfolios = {baseline}
  Signals = {s1, s2, s3}
  Markets = {m1, m2}
  Settings <- MCSettings
  StrategyDefaults <- MCStrategyDefaults
  Strategies <- MCStrategiesKelly
  Feeds <- MCFeedsSteady
  DayLength = 2
  MaxTime = 0
  MaxBirth = 0
  MaxScore = 1
  MaxClosings = 1
  MaxFaults = 0
  MaxStops = 1
INVARIANTS
  LedgerBalances
  OneDecisionPerSignal
  OpenCountWithinCap
PROPERTIES
  EntryKeepsExposureCaps
