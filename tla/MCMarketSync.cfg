SPECIFICATION SyncSpec
CONSTANTS
  NoPrice = NoPrice
  NoTxn = NoTxn
  Markets = {1, 2, 3}
  TradingPrices = {50}
  Settlements = {"yes"}
  Held = {1, 3}
  EndDateOrder <- OneDated
  Archived = {2}
  MaxIds = 2
  BacklogMin = 1
  FallbackCap = 1
  MaxResolutions = 1
  MaxFaults = 1
INVARIANTS
  SyncTypeOK

  
  
CHECK_DEADLOCK FALSE
