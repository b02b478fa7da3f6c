SPECIFICATION FairSpec
CONSTANTS
  a1 = a1
  a2 = a2
  b = b
  yes = yes
  no = no
  m = m
  NoCycle = NoCycle
  Wallets = {a1, a2, b}
  Assets = {yes, no}
  Markets = {m}
  Threads = {1, 2}
  TrackedWallets = {a1, a2, b}
  History <- MCHistory
  Held <- MCHeld
  CoTradeWindow = 15
  MinSharedMarkets = 2
  PriorStrength = 2
  ZombieGrace = 1
  Unit = 4
  BreadthReference = 30
  DepthReference = 500
  MakerThreshold = 60
  MakerMode = "downweight"
  CategoryOf <- MCCategoryOf
  Value <- MCValue
  MarketOf <- MCMarketOf
  Quotes <- MCQuotes
  PriceBand <- MCPriceBand
  Freshness = 1
  TTL = 1
  MinTraders = 2
  MinScore = 60
  MinValue = 2
  MinLiquidity = 5
  MinVolume = 1
  MaxSpread = 5
  MinHoursToEnd = 12
  MaxTime = 2
  MaxEvents = 2
  MaxClosings = 1
  MaxTimeouts = 1
  MaxFaults = 1
INVARIANTS
  TypeOK
  OneActiveWithoutTimeouts
  SignalsAreConsensus
PROPERTIES
  SignalsExpire
