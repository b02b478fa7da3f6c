SPECIFICATION Spec
CONSTANTS
  w1 = w1
  p1 = p1
  p2 = p2
  p3 = p3
  NoTxn = NoTxn
  Wallets = {w1}
  Positions = {p1, p2, p3}
  WalletOf <- OneWallet
  ClusterOf <- TwoEvents
  ClvOf <- MixedClvs
  Histories <- MCHistories
  Screening <- MCScreening
  Horizon = 1
  ValidationSpan = 1
  MinForwardTrades = 1
  Confirmations = 1
  DecayThreshold = 2
  DecayWindows = 2
  LatePrices = {}
  FillCap = 3
  MaxTime = 7
  MaxStep = 1
  MaxMoves = 0
  MaxLag = 0
  MaxFaults = 0
INVARIANTS
  WindowsTile
  
