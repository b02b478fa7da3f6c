---------------------------- MODULE MCPaperEngine ----------------------------
(***************************************************************************)
(* A small instance of PaperEngine: a fixed-fraction portfolio on the      *)
(* baseline exit ladder and a tiered one that scalps, over three signals   *)
(* on two markets of one event.                                            *)
(***************************************************************************)
EXTENDS PaperEngine, TLC

CONSTANTS m1, m2, s1, s2, s3, baseline, greed

MCMarketOf == s1 :> m1 @@ s2 :> m1 @@ s3 :> m2
MCSideOf == s1 :> "yes" @@ s2 :> "no" @@ s3 :> "yes"
MCEventOf == m1 :> "e" @@ m2 :> "e"
MCSignalPrice == s1 :> 50 @@ s2 :> 44 @@ s3 :> 50

Guards ==
  {"MAX_OPEN_POSITIONS", "DAILY_STOP_LOSS", "MIN_BANKROLL_HALT", "MAX_POSITION_SIZE",
   "MAX_TOTAL_EXPOSURE", "MAX_MARKET_EXPOSURE", "MAX_CORRELATED_EXPOSURE"}

MCSettings ==
  [sizer |-> "FIXED", sizingRule |-> "FIXED_FRACTION", fixedFractionPct |-> 30,
   confidenceBaseFractionPct |-> 20, confidenceReferenceScore |-> 1,
   confidenceMinMultiplier |-> 50, confidenceMaxMultiplier |-> 200,
   maxPositionNotionalPct |-> 40, maxTotalExposurePct |-> 90, minPositionNotional |-> 5000,
   bands |-> <<[min |-> 1, max |-> 2, pct |-> 20], [min |-> 2, max |-> 3, pct |-> 22]>>,
   floorBelowLowestBand |-> TRUE, kellyFractionPct |-> 50, kellyFeePct |-> 0,
   maxPositionPct |-> 40, maxExposurePct |-> 70, maxMarketExposurePct |-> 40,
   maxCorrelatedExposurePct |-> 60, dailyStopLossPct |-> 10, maxOpenPositions |-> 2,
   minBankrollPct |-> 20, enabled |-> Guards,
   minWeightedScore |-> 1, ownWeights |-> FALSE, minLiquidity |-> 100, entryDelay |-> 30,
   slippageK |-> 50, slippageMax |-> 15, noDelayedSnapshotPenalty |-> 5,
   maxDriftPct |-> 15, maxBookDepthPct |-> 100, feeRate |-> 4,
   takeProfitPct |-> 30, stopLossPct |-> 20, exitOnSignalExpiryHours |-> 0,
   useScalpExit |-> FALSE, scalpTakeProfit |-> 3, scalpBreakevenTolerance |-> 1,
   scalpMaxHoldHours |-> 0, resolutionThreshold |-> 2]

\* The strategies' own defaults are those of the settings.
MCStrategyDefaults == MCSettings

MCStrategies ==
  baseline :> [sizer |-> "FIXED"]
    @@ greed :> [sizer |-> "TIERED", useScalpExit |-> TRUE, ownWeights |-> TRUE]

MCStrategiesKelly == baseline :> [sizer |-> "KELLY"]

\* A deep book at 50; a market gone up; one whose ask is above its last price,
\* without bid or book, and whose late snapshot the cycle does not use yet.
FDeep ==
  [liquidity |-> 10000, ask |-> 50, bid |-> 49, cycleAfter |-> 120, feeRate |-> NoPrice,
   snapshots |-> <<[after |-> 10, price |-> 48], [after |-> 60, price |-> 50]>>,
   book |-> <<[price |-> 50, size |-> 1000]>>]
FUp ==
  [liquidity |-> 10000, ask |-> 70, bid |-> 68, cycleAfter |-> 120, feeRate |-> 3,
   snapshots |-> <<[after |-> 10, price |-> 70]>>, book |-> <<>>]
FBare ==
  [liquidity |-> 1000, ask |-> 52, bid |-> NoPrice, cycleAfter |-> 120, feeRate |-> NoPrice,
   snapshots |-> <<[after |-> 130, price |-> 39]>>, book |-> <<>>]

MCFeeds == {FDeep, FUp}

MCFeedsSteady == {FDeep, FBare}

\* Two bands of price; two distinct events make a bucket worth trusting.
MCCalibrationConfig ==
  [scoreBands |-> <<[min |-> 1, max |-> 3]>>,
   priceBands |-> <<[min |-> 0, max |-> 48], [min |-> 48, max |-> 100]>>,
   minSamples |-> 2, window |-> 1]

MCNoPastTrades == <<>>

\* Signals at the price of s1 and s3 won six of seven; there is none yet at the
\* price of s2.
MCPastTrades ==
  [i \in -6..0 |-> [cluster |-> IF i > -3 THEN "e1" ELSE "e2", score |-> 1, price |-> 50,
                    won |-> i < 0]]
=============================================================================
