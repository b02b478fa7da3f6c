SPECIFICATION V2Spec
CONSTANTS
  NoPrice = NoPrice
  NoTxn = NoTxn
  Markets = {1}
  TradingPrices = {1, 50}
  Settlements = {"yes", "no"}
  Threshold = 2
  MaxEvents = 3
  Scanned = {1}
  Category = "sports"
  TrackedWallets = {1, 2, 3}
  History <- MCOpened
  CoTradeWindow = 15
  MinSharedMarkets = 2
  Held <- MCHeld
  PriorStrength = 2
  ZombieGrace = 1
  Unit = 4
  Exposures <- MCExposures
  V2Books <- MCV2Books
  PastDiffs <- MCPastDiffs
  EventOf <- MCEventOf
  MaxWeightPct = 60
  ClustersTarget = 2
  NotionalTarget = 100
  MinDivergence = 5
  MinConfidence = 20
  FixedPct = 20
  GateMinN = 2
  GateMinT = 10
  V2Fee = 4
  KellyConfig <- MCKelly
  ExpiryHours = 0
  V2Start = 100000
  MaxTime = 1
INVARIANTS
  V2Ledger
  
  NoClusterDominates
PROPERTIES
  TradesLeave
