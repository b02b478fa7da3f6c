--------------------------- MODULE PortfolioConfig ---------------------------
(***************************************************************************)
(* How a portfolio gets its configuration (app/paper/strategies.py, the    *)
(* resolve_* functions of app/paper/engine.py): a strategy names what it   *)
(* changes, the seed script stores its whole parameter set with the row,   *)
(* and every cycle resolves what the row does not set from the settings.   *)
(*                                                                         *)
(* A strategy, a row's params and the settings are records whose fields    *)
(* carry the names of the settings.  Of the settings that behave alike one *)
(* stands for all: minWeightedScore and minLiquidity for the entry         *)
(* filters, ownWeights for the adaptive and hidden-alpha recomputations of *)
(* the score, and enabled for the toggles of the risk rules.               *)
(***************************************************************************)
EXTENDS Integers

\* What to_params writes, whether the strategy changes it or not.
StrategyKeys ==
  {"sizer", "ownWeights", "useScalpExit", "scalpTakeProfit", "scalpBreakevenTolerance",
   "scalpMaxHoldHours", "minWeightedScore", "minLiquidity", "sizingRule", "fixedFractionPct",
   "confidenceBaseFractionPct", "confidenceReferenceScore", "confidenceMinMultiplier",
   "confidenceMaxMultiplier", "maxPositionNotionalPct", "maxTotalExposurePct",
   "minPositionNotional", "entryDelay", "slippageK", "slippageMax",
   "noDelayedSnapshotPenalty", "maxDriftPct", "takeProfitPct", "stopLossPct",
   "exitOnSignalExpiryHours"}

\* defaults holds the values of StrategyConfig's own fields: changing a setting
\* does not reach a portfolio that was seeded from a strategy.
ToParams(strategy, defaults) ==
  [key \in StrategyKeys |-> IF key \in DOMAIN strategy THEN strategy[key] ELSE defaults[key]]

GetParam(params, key, settings) ==
  IF key \in DOMAIN params THEN params[key] ELSE settings[key]

SizerKeys ==
  {"kellyFractionPct", "kellyFeePct", "bands", "floorBelowLowestBand"}

RiskKeys ==
  {"maxPositionPct", "maxExposurePct", "maxMarketExposurePct", "maxCorrelatedExposurePct",
   "dailyStopLossPct", "maxOpenPositions", "minBankrollPct", "enabled"}

\* Only the resolution threshold is read from the settings whatever a row says.
ResolvePortfolioConfig(params, settings) ==
  [key \in StrategyKeys \cup SizerKeys \cup RiskKeys
             \cup {"maxBookDepthPct", "feeRate", "resolutionThreshold"} |->
     IF key = "resolutionThreshold" THEN settings[key] ELSE GetParam(params, key, settings)]
=============================================================================
