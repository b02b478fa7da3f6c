------------------------------ MODULE PaperRisk ------------------------------
(***************************************************************************)
(* Position sizing and the risk guardrails of the paper trader: the pure   *)
(* functions of app/paper/sizing.py, app/risk/sizing_tiered.py,            *)
(* app/risk/sizing_kelly.py, app/risk/rules.py and app/risk/manager.py.    *)
(*                                                                         *)
(* Units: a price is a whole number of cents (100 is one dollar, the       *)
(* payout of a winning share), money is in hundredths of a cent, a rate or *)
(* a percentage is a whole number of percent, a size is a whole number of  *)
(* shares.  A portfolio's resolved configuration is a record `cfg` whose   *)
(* fields carry the names of the settings.                                 *)
(***************************************************************************)
EXTENDS Integers, FiniteSets, FiniteSetsExt, Sequences

PreCheckRules ==
  <<"EMERGENCY_STOP", "MAX_OPEN_POSITIONS", "DAILY_STOP_LOSS", "MIN_BANKROLL_HALT">>

ApplyRules ==
  <<"MAX_POSITION_SIZE", "MAX_TOTAL_EXPOSURE", "MAX_MARKET_EXPOSURE",
    "MAX_CORRELATED_EXPOSURE">>

\* p percent of an amount of money.
Pct(p, amount) == (p * amount) \div 100

Least(S) == CHOOSE x \in S : \A y \in S : x <= y

Smaller(a, b) == IF a <= b THEN a ELSE b

Larger(a, b) == IF a >= b THEN a ELSE b

(***************************************************************************)
(* Exposure.  A position is a record with market, event and notional; the  *)
(* open positions are a function from row numbers to positions, so that    *)
(* two equal positions count twice.                                        *)
(***************************************************************************)
Used(positions, ids) == SumFunction([i \in ids |-> positions[i].notional])

Exposure(positions) == Used(positions, DOMAIN positions)

-----------------------------------------------------------------------------
(***************************************************************************)
(* Sizing.  Each sizer returns a notional, or Skip (-1) when it declines.  *)
(***************************************************************************)
Skip == -1

\* A market whose event_slug is null.
NoEvent == "no event"

\* The percentage of the bankroll the sizing rule asks for: a fixed fraction,
\* or one scaled by the score within the confidence multiplier's bounds.
BaseFractionPct(score, cfg) ==
  LET multiplier == (100 * score) \div cfg.confidenceReferenceScore
      bounded == Larger(cfg.confidenceMinMultiplier,
                        Smaller(multiplier, cfg.confidenceMaxMultiplier))
  IN  IF cfg.sizingRule = "CONFIDENCE_WEIGHTED"
        THEN Pct(bounded, cfg.confidenceBaseFractionPct)
        ELSE cfg.fixedFractionPct

SizePosition(cash, exposure, score, cfg) ==
  LET headroom == Larger(0, Pct(cfg.maxTotalExposurePct, cash) - exposure)
      target == Smaller(headroom,
                  Smaller(Pct(BaseFractionPct(score, cfg), cash),
                          Pct(cfg.maxPositionNotionalPct, cash)))
  IN  IF target < cfg.minPositionNotional THEN Skip ELSE target

\* The fraction of the band a score falls in: bands are half open, a score
\* below them all gets the lowest fraction, one above them all the highest.
\* A band is a record [min, max, pct]; the bands are in ascending order.
FractionFor(score, bands) ==
  LET holding == {i \in DOMAIN bands : bands[i].min <= score /\ score < bands[i].max}
  IN  CASE score < bands[1].min -> bands[1].pct
        [] score >= bands[1].min /\ holding # {} -> bands[Least(holding)].pct
        [] OTHER -> bands[Len(bands)].pct

SizeTieredPosition(cash, score, cfg) ==
  IF score < cfg.bands[1].min /\ ~cfg.floorBelowLowestBand
    THEN Skip
    ELSE Smaller(Pct(FractionFor(score, cfg.bands), cash), Pct(cfg.maxPositionPct, cash))

\* f = (p_hat - c) / (1 - c), with c the price plus the fee, scaled by the
\* Kelly fraction and capped.
SizeKellyPosition(cash, pHat, price, cfg) ==
  LET c == Pct(100 + cfg.kellyFeePct, price)
  IN  IF c >= 100 \/ pHat <= c
        THEN Skip
        ELSE Smaller(Pct(cfg.kellyFractionPct, (cash * (pHat - c)) \div (100 - c)),
                     Pct(cfg.maxPositionPct, cash))

\* The notional a portfolio's sizer proposes.  pHat is the calibrated win
\* probability in percent, or Skip when the signal's bucket is too sparse.
TargetNotional(cash, exposure, score, pHat, price, cfg) ==
  CASE cfg.sizer = "KELLY" /\ pHat # Skip -> SizeKellyPosition(cash, pHat, price, cfg)
    [] cfg.sizer = "KELLY" /\ pHat = Skip -> SizeTieredPosition(cash, score, cfg)
    [] cfg.sizer = "TIERED" -> SizeTieredPosition(cash, score, cfg)
    [] OTHER -> SizePosition(cash, exposure, score, cfg)

-----------------------------------------------------------------------------
(***************************************************************************)
(* Guardrails.  `st` is the portfolio state the rules read: cash, starting,*)
(* dayStart, realizedToday, positions and stop.                            *)
(***************************************************************************)
Breaches(rule, st, cfg) ==
  CASE rule = "EMERGENCY_STOP" -> st.stop
    [] rule = "MAX_OPEN_POSITIONS" ->
         Cardinality(DOMAIN st.positions) >= cfg.maxOpenPositions
    [] rule = "DAILY_STOP_LOSS" ->
         st.realizedToday <= -Pct(cfg.dailyStopLossPct, st.dayStart)
    [] rule = "MIN_BANKROLL_HALT" -> st.cash < Pct(cfg.minBankrollPct, st.starting)

Enabled(rule, cfg) == rule = "EMERGENCY_STOP" \/ rule \in cfg.enabled

\* The deny-only gate before sizing: the first breached rule, or "ALLOW".
PreCheck(st, cfg) ==
  LET breached == {i \in DOMAIN PreCheckRules :
                     Enabled(PreCheckRules[i], cfg) /\ Breaches(PreCheckRules[i], st, cfg)}
  IN  IF breached = {} THEN "ALLOW" ELSE PreCheckRules[Least(breached)]

\* The positions a scoped rule adds up for a candidate on this market.
InScope(rule, positions, trade) ==
  CASE rule = "MAX_POSITION_SIZE" -> {}
    [] rule = "MAX_TOTAL_EXPOSURE" -> DOMAIN positions
    [] rule = "MAX_MARKET_EXPOSURE" ->
         {i \in DOMAIN positions : positions[i].market = trade.market}
    [] rule = "MAX_CORRELATED_EXPOSURE" ->
         {i \in DOMAIN positions : positions[i].event = trade.event}

CapPct(rule, cfg) ==
  CASE rule = "MAX_POSITION_SIZE" -> cfg.maxPositionPct
    [] rule = "MAX_TOTAL_EXPOSURE" -> cfg.maxExposurePct
    [] rule = "MAX_MARKET_EXPOSURE" -> cfg.maxMarketExposurePct
    [] rule = "MAX_CORRELATED_EXPOSURE" -> cfg.maxCorrelatedExposurePct

Headroom(rule, st, trade, cfg) ==
  Pct(CapPct(rule, cfg), st.cash) - Used(st.positions, InScope(rule, st.positions, trade))

\* Mutant: the first rule that resizes wins instead of the tightest.
ApplyFirstResize(st, trade, cfg) ==
  LET active == {i \in DOMAIN ApplyRules :
                   /\ Enabled(ApplyRules[i], cfg)
                   /\ ApplyRules[i] = "MAX_CORRELATED_EXPOSURE" => trade.event # NoEvent}
      room(i) == Headroom(ApplyRules[i], st, trade, cfg)
      denying == {i \in active : ApplyRules[i] # "MAX_POSITION_SIZE" /\ room(i) <= 0}
      resizing == {i \in active : trade.notional > room(i)}
  IN  CASE denying # {} ->
             [action |-> "DENY", rule |-> ApplyRules[Least(denying)], notional |-> 0]
        [] denying = {} /\ resizing # {} ->
             [action |-> "RESIZE", rule |-> "RESIZE", notional |-> room(Least(resizing))]
        [] OTHER -> [action |-> "ALLOW", rule |-> "ALLOW", notional |-> trade.notional]

\* The resize-capable gate: any rule without headroom denies, otherwise the
\* tightest resize wins, otherwise the notional is allowed as proposed.
\* A market without an event is exempt from the correlated-exposure rule.
Apply(st, trade, cfg) ==
  LET active == {i \in DOMAIN ApplyRules :
                   /\ Enabled(ApplyRules[i], cfg)
                   /\ ApplyRules[i] = "MAX_CORRELATED_EXPOSURE" => trade.event # NoEvent}
      room(i) == Headroom(ApplyRules[i], st, trade, cfg)
      denying == {i \in active : ApplyRules[i] # "MAX_POSITION_SIZE" /\ room(i) <= 0}
      resizing == {i \in active : trade.notional > room(i)}
  IN  CASE denying # {} ->
             [action |-> "DENY", rule |-> ApplyRules[Least(denying)], notional |-> 0]
        [] denying = {} /\ resizing # {} ->
             [action |-> "RESIZE", rule |-> "RESIZE", notional |-> Least({room(i) : i \in resizing})]
        [] OTHER -> [action |-> "ALLOW", rule |-> "ALLOW", notional |-> trade.notional]
=============================================================================
