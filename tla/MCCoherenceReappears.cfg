SPECIFICATION CoherenceSpec
CONSTANTS
  hedge = hedge
  bids = bids
  NoPrice = NoPrice
  NoTxn = NoTxn
  Markets = {1}
  TradingPrices = {50}
  Settlements = {"yes"}
  Threshold = 2
  MaxEvents = 2
  SetOrder <- MCSetOrder
  LegsOf <- MCLegsOf
  DetectOnly = {bids}
  Books <- MCBooks
  MinEdge = 1
  DepthPct = 50
  LegFeeRate = 6
  MaxNotional = 100000
  CoherenceStart = 60000
PROPERTIES
  SeenAgainIsUpdated
