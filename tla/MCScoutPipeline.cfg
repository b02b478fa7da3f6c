SPECIFICATION FairSpec
CONSTANTS
  w1 = w1
  p1 = p1
  p2 = p2
  p3 = p3
  NoTxn = NoTxn
  Wallets = {w1}
  Positions = {p1, p2}
  WalletOf <- OneWallet
  ClusterOf <- TwoEvents
  ClvOf <- MixedClvs
  Histories <- MCHistories
  Screening <- MCScreening
  Horizon = 1
  ValidationSpan = 1
  MinForwardTrades = 1
  Confirmations = 1
  DecayThreshold = 0
  DecayWindows = 1
  LatePrices = {p1, p2}
  FillCap = 3
  MaxTime = 5
  MaxStep = 1
  MaxMoves = 3
  MaxLag = 1
  MaxFaults = 1
INVARIANTS
  TypeOK
  TransitionLogIsPath
  VerdictsRestOnThisAttempt
PROPERTIES
  CandidatesGetVerdict
