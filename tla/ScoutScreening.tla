---------------------------- MODULE ScoutScreening ----------------------------
(***************************************************************************)
(* Stage 1 of the Scout as a pure function of a wallet's positions         *)
(* (app/scout/screening.py): which positions count as trades, and the four *)
(* gates they must pass.                                                   *)
(*                                                                         *)
(* A position is [open, pnl, age]: whether it is still open, its           *)
(* cash_pnl, and the days since it closed or, for an open one, since its   *)
(* market ended; `at` is the day of the screen.  A configuration is        *)
(* [graceDays, lookbackDays, minTradesPerDay, minTrades, minWinRate,       *)
(* minWeekShare], the rates in percent.  Profit factor and ROI are stored  *)
(* for display only and left out.                                          *)
(***************************************************************************)
EXTENDS ClvEvidence

DaysPerWeek == 7

\* Still open long past the end of its market: a loss, whatever it shows.
IsZombie(position, cfg) == position.open /\ position.age > cfg.graceDays

\* A trade per closed position, won or lost by its profit, and one per zombie,
\* lost on the day its grace ran out.
TradeRecords(positions, cfg) ==
  LET counted == SelectSeq(positions, LAMBDA p : ~p.open \/ IsZombie(p, cfg))
      Trade(p) == [pnl |-> p.pnl, won |-> ~p.open /\ p.pnl > 0,
                   age |-> IF p.open THEN p.age - cfg.graceDays ELSE p.age]
  IN  [i \in DOMAIN counted |-> Trade(counted[i])]

Wins(trades) == Len(SelectSeq(trades, LAMBDA t : t.won))

\* Trades per day over the lookback, in percent.
ActivityRate(trades, cfg) ==
  (100 * Len(SelectSeq(trades, LAMBDA t : t.age <= cfg.lookbackDays))) \div cfg.lookbackDays

\* The share of weeks with a trade that made a profit, in percent.
WeeklyProfitableShare(trades, at) ==
  LET Week(i) == (at - trades[i].age) \div DaysPerWeek
      weeks == {Week(i) : i \in DOMAIN trades}
      pnl(w) == MapThenSumSet(LAMBDA i : trades[i].pnl, {i \in DOMAIN trades : Week(i) = w})
  IN  IF weeks = {} THEN 0
      ELSE (100 * Cardinality({w \in weeks : pnl(w) > 0})) \div Cardinality(weeks)

FailingGates(trades, at, cfg) ==
  {gate \in {"ACTIVITY", "TOTAL_TRADES", "WILSON_WINRATE", "WEEKLY_CONSISTENCY"} :
     CASE gate = "ACTIVITY" -> ActivityRate(trades, cfg) < cfg.minTradesPerDay
       [] gate = "TOTAL_TRADES" -> Len(trades) < cfg.minTrades
       [] gate = "WILSON_WINRATE" -> ~WilsonLowAbove(Wins(trades), Len(trades), cfg.minWinRate)
       [] gate = "WEEKLY_CONSISTENCY" -> WeeklyProfitableShare(trades, at) <= cfg.minWeekShare}

PassesScreen(positions, at, cfg) == FailingGates(TradeRecords(positions, cfg), at, cfg) = {}
=============================================================================
