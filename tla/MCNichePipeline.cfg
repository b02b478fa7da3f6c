SPECIFICATION Spec
CONSTANTS
  w1 = w1
  w2 = w2
  p1 = p1
  p2 = p2
  p3 = p3
  Wallets = {w1, w2}
  Markets = {1, 2, 3}
  NicheOf <- Tagged
  NoNiche = NoNiche
  OutcomesOf <- Endings
  Trades <- SomeTrades
  BatchSize = 2
  MaxFaults = 1
  Positions = {p1, p2, p3}
  OpenedBy <- Openers
  MarketOf <- PositionMarkets
  ClvOf <- Gains
  Unpriced = {}
  MinTrades = 1
  MinWinrate = 5
  MaxNicheTracked = 1
  Horizon = 1
  ValidationSpan = 1
  MinForwardTrades = 1
  Confirmations = 1
  FillCap = 2
  MaxTime = 2
INVARIANTS
  TypeOK
  GradesAreComplete
  WindowsFollow
  ValidatedIsEarned
PROPERTIES
  MarketsAheadAreReached
  
