SPECIFICATION FairSpec
CONSTANTS
  m1 = m1
  m2 = m2
  s1 = s1
  s2 = s2
  s3 = s3
  baseline = baseline
  greed = greed
  NoPrice = NoPrice
  NoTxn = NoTxn
  MarketOf <- MCMarketOf
  SideOf <- MCSideOf
  EventOf <- MCEventOf
  SignalPrice <- MCSignalPrice
  StartingBankroll = 100000
  CalibrationConfig <- MCCalibrationConfig
  PastTrades <- MCNoPastTrades
  Portfolios = {baseline, greed}
  Signals = {s1}
  Markets = {m1}
  Settings <- MCSettings
  StrategyDefaults <- MCStrategyDefaults
  Strategies <- MCStrategies
  Feeds <- MCFeeds
  DayLength = 2
  MaxTime = 1
  MaxBirth = 0
  MaxScore = 2
  MaxClosings = 1
  MaxFaults = 1
  MaxStops = 0
INVARIANTS
  TypeOK
PROPERTIES
  
  ImplementsLifecycle
  ResolutionIsGroundTruth
  OpenTradesClose
