SPECIFICATION SweepSpec
CONSTANTS
  w1 = w1
  a1 = a1
  a2 = a2
  NoSweep = NoSweep
  Wallets = {w1}
  AssetOrder <- TwoAssets
  Sizes = {1, 3}
  InitialSizes = {0, 1}
  Epsilon = 1
  PageSize = 1
  MaxOffset = 1
  Periods = {"MONTH"}
  Pnl = {1}
  MonthWeight = 1
  AllTimeWeight = 1
  ConsistencyWeight = 1
  Lookback = 0
  TrackedLimit = 1
  MaxTime = 1
  MaxEvents = 4
INVARIANTS
  SweepTypeOK
  OpenIffHistorySaysSo
PROPERTIES
  
  SteadyWalletsAreExact
  RowsConverge
