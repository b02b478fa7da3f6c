----------------------------- MODULE PaperEngine -----------------------------
(***************************************************************************)
(* The paper-trading engine, app/paper/engine.py: every cycle takes each   *)
(* active portfolio through entries, mark-to-market and exits, all inside  *)
(* one database transaction, while the consensus job and the market        *)
(* collectors commit to the tables it reads.                               *)
(*                                                                         *)
(* paper_trades is the sequence `rows`; a row's id is its position.  The   *)
(* session runs with autoflush off (app/db/session.py), so a SELECT inside *)
(* the cycle sees only the rows that were committed when it began, the     *)
(* first txn.base of txn.rows: a trade added in this cycle's entries is    *)
(* invisible to its own mark-to-market and exits.                          *)
(*                                                                         *)
(* The price feeds are not state here: collectors overwrite them between   *)
(* any two statements, so every read observes any of Feeds.                *)
(***************************************************************************)
EXTENDS Calibration, PortfolioConfig

CONSTANTS
  Portfolios,         \* the active paper_portfolios rows
  Signals,            \* the signals consensus may ever create
  Markets,
  MarketOf,           \* the market (condition_id) of each signal
  SideOf,             \* the outcome token each signal buys
  EventOf,            \* the event_slug of each market, or NoEvent
  SignalPrice,        \* average_entry_price of each signal
  Settings,           \* the global settings
  StrategyDefaults,   \* the values of StrategyConfig's fields that a strategy leaves alone
  Strategies,         \* what each portfolio's strategy changes
  StartingBankroll,
  Feeds,              \* what the collectors may have stored about a signal's token
  CalibrationConfig,  \* [scoreBands, priceBands, minSamples, window]
  PastTrades,         \* calibration records of trades resolved before, numbered from 0 down
  DayLength,          \* hours in a UTC day, scaled down
  MaxTime,            \* bound: the clock stops here
  MaxBirth,           \* bound: no signal is created after this hour
  MaxScore,           \* bound: the strongest consensus modelled
  MaxClosings,        \* bound: markets that close
  MaxFaults,          \* bound: cycles that may fail
  MaxStops,           \* bound: times the operator flips the emergency stop
  NoTxn               \* no cycle is running

Sides == {"yes", "no"}

\* Each portfolio's configuration, resolved anew, to the same, in every cycle.
Config ==
  [pf \in Portfolios |->
     ResolvePortfolioConfig(ToParams(Strategies[pf], StrategyDefaults), Settings)]

\* What a read for a portfolio may observe.
Quotes == [pf \in Portfolios |-> {Observation(f, Config[pf].entryDelay) : f \in Feeds}]

\* The settings' validators and the schema guarantee these (app/config/settings.py),
\* and the consensus that a signal is on an outcome of its market.
ASSUME ConfigAssumption ==
  /\ \A pf \in Portfolios : Config[pf].maxOpenPositions \in Nat
  /\ \A s \in Signals : MarketOf[s] \in Markets /\ SideOf[s] \in Sides
  /\ StartingBankroll \in Nat

\* The settings that are a fraction of a price or of the bankroll.
Fractions ==
  {"slippageMax", "noDelayedSnapshotPenalty", "maxDriftPct", "fixedFractionPct",
   "confidenceBaseFractionPct", "maxPositionNotionalPct", "maxTotalExposurePct",
   "maxBookDepthPct", "feeRate", "maxPositionPct", "maxExposurePct", "maxMarketExposurePct",
   "maxCorrelatedExposurePct", "minBankrollPct", "kellyFractionPct", "kellyFeePct"}

\* The settings' validators bound these, or refuse a negative value or a zero.
ASSUME SettingsAssumption ==
  \A pf \in Portfolios :
    LET cfg == Config[pf]
    IN  /\ \A key \in Fractions : cfg[key] \in 0..100
        /\ cfg.confidenceReferenceScore \in Nat \ {0}
        /\ cfg.confidenceMinMultiplier \in Nat /\ cfg.confidenceMaxMultiplier \in Nat
        /\ cfg.minPositionNotional \in Nat /\ cfg.slippageK \in Nat
        /\ cfg.bands # <<>>
        /\ cfg.bands \in Seq([min : Nat, max : Nat, pct : 0..100])

\* What a feed holds: prices within a dollar, and an ask side whose levels have
\* something to sell.
IsFeed(f) ==
  /\ \A p \in {f.liquidity, f.ask, f.bid, f.feeRate} : p \in Nat \cup {NoPrice}
  /\ f.snapshots \in Seq([after : Nat, price : Nat])
  /\ f.book \in Seq([price : 1..99, size : Nat \ {0}])

\* The schema's types and the bounds of the model.
ASSUME DataAssumption ==
  /\ Portfolios # {} /\ IsFiniteSet(Signals)
  /\ \A s \in Signals : SignalPrice[s] \in 1..100
  /\ \A f \in Feeds : IsFeed(f)
  /\ IsFiniteSet(DOMAIN PastTrades)
  /\ {CalibrationConfig.scoreBands, CalibrationConfig.priceBands}
       \subseteq Seq([min : Nat, max : Nat])
  /\ MaxTime \in Nat /\ MaxScore \in Nat /\ MaxStops \in Nat /\ MaxFaults \in Nat

VARIABLES
  sig,          \* signals: [status, born, score]
  closed,       \* markets.closed
  winner,       \* market_resolutions: the winning side, "void", or "none" before
  now,          \* the wall clock, in hours
  stop,         \* the paper_emergency_stop override: [on, flips]
  cash,         \* paper_portfolios.current_bankroll
  rows,         \* paper_trades, by id
  txn,          \* the running cycle's transaction, or NoTxn
  faults        \* cycles that failed so far

services == <<sig, closed, winner, now, stop>>
vars == <<sig, closed, winner, now, stop, cash, rows, txn, faults>>

Day(t) == t \div DayLength
Money(price, size) == 100 * price * size

\* What entering a row cost, fee included, and what its position is worth.
Cost(r) == Money(r.price, r.size)

-----------------------------------------------------------------------------
(***************************************************************************)
(* The services around the engine, as far as it reads what they write.     *)
(***************************************************************************)

\* Consensus creates a signal, on an open market only.
CreateSignal(s) ==
  /\ sig[s].status = "NONE"
  /\ ~closed[MarketOf[s]]
  /\ now <= MaxBirth
  /\ \E score \in 1..MaxScore :
       sig' = [sig EXCEPT ![s] = [status |-> "ACTIVE", born |-> now, score |-> score]]
  /\ UNCHANGED <<closed, winner, now, stop, cash, rows, txn, faults>>

\* Reinforcement overwrites the metrics of an ACTIVE signal, not its birth.
ReinforceSignal(s) ==
  /\ sig[s].status = "ACTIVE"
  /\ sig[s].score < MaxScore
  /\ sig' = [sig EXCEPT ![s].score = @ + 1]
  /\ UNCHANGED <<closed, winner, now, stop, cash, rows, txn, faults>>

ExpireSignal(s) ==
  /\ sig[s].status = "ACTIVE"
  /\ sig[s].born < now
  /\ sig' = [sig EXCEPT ![s].status = "EXPIRED"]
  /\ UNCHANGED <<closed, winner, now, stop, cash, rows, txn, faults>>

ClosingsLeft == Cardinality({m \in Markets : closed[m]}) < MaxClosings

\* The markets collector finds the market closed.
CloseMarket(m) ==
  /\ ~closed[m] /\ ClosingsLeft
  /\ closed' = [closed EXCEPT ![m] = TRUE]
  /\ UNCHANGED <<sig, winner, now, stop, cash, rows, txn, faults>>

\* The resolutions collector writes the outcome and closes the market.  Its work
\* list holds open markets, read before the fetch it awaits: the markets
\* collector may have closed the market since, or closed it for good without
\* an outcome.
RecordResolution(m) ==
  /\ winner[m] = "none"
  /\ closed[m] \/ ClosingsLeft
  /\ \E w \in Sides \cup {"void"} : winner' = [winner EXCEPT ![m] = w]
  /\ closed' = [closed EXCEPT ![m] = TRUE]
  /\ UNCHANGED <<sig, now, stop, cash, rows, txn, faults>>

FlipEmergencyStop ==
  /\ stop.flips < MaxStops
  /\ stop' = [on |-> ~stop.on, flips |-> stop.flips + 1]
  /\ UNCHANGED <<sig, closed, winner, now, cash, rows, txn, faults>>

Tick ==
  /\ now < MaxTime
  /\ now' = now + 1
  /\ UNCHANGED <<sig, closed, winner, stop, cash, rows, txn, faults>>

-----------------------------------------------------------------------------
(***************************************************************************)
(* The cycle's view of paper_trades.                                       *)
(***************************************************************************)

\* Mutant: autoflush on, the cycle's own additions are visible to its SELECTs.
VisibleAutoflushed(t) == DOMAIN t.rows

Visible(t) == 1..t.base

OfPortfolio(rs, ids, pf, status) == {i \in ids : rs[i].pf = pf /\ rs[i].status = status}

\* Mutant: the list of open positions is not extended by this cycle's entries.
OpenPositionsAtStart(t) ==
  [i \in OfPortfolio(t.rows, Visible(t), t.pf, "OPEN") |->
     [market |-> MarketOf[t.rows[i].sig], event |-> EventOf[MarketOf[t.rows[i].sig]],
      notional |-> Cost(t.rows[i])]]

\* The open positions the guardrails see: those of the SELECT that opened
\* the portfolio's entries, plus the ones entered since.
OpenPositions(t) ==
  [i \in OfPortfolio(t.rows, DOMAIN t.rows, t.pf, "OPEN") |->
     [market |-> MarketOf[t.rows[i].sig], event |-> EventOf[MarketOf[t.rows[i].sig]],
      notional |-> Cost(t.rows[i])]]

\* A portfolio's work list: the score each undecided signal was loaded with, 0
\* for a signal that is not, or no longer, on the list.
NothingToDecide == [s \in Signals |-> 0]

\* Mutant: only an open trade counts as a decision.
AlreadyHeld(t, pf) == {t.rows[i].sig : i \in OfPortfolio(t.rows, Visible(t), pf, "OPEN")}

\* Signals the portfolio already has a row for, whatever the row's status.
AlreadyDecided(t, pf) == {t.rows[i].sig : i \in {j \in Visible(t) : t.rows[j].pf = pf}}

RealizedToday(t, pf) ==
  SumFunction([i \in {j \in OfPortfolio(t.rows, Visible(t), pf, "CLOSED") :
                        Day(t.rows[j].exitAt) >= Day(t.at)} |-> t.rows[i].pnl])

\* The day-start bankroll: today's exits and today's open entries reversed.
DayStartBankroll(t, pf) ==
  t.cash[pf] - RealizedToday(t, pf)
    + SumFunction([i \in {j \in OfPortfolio(t.rows, Visible(t), pf, "OPEN") :
                            Day(t.rows[j].entryAt) >= Day(t.at)} |-> Cost(t.rows[i])])

\* fee_paid is kept as its two legs, entryFee and exitFee.  The exit_at of a
\* MISSED row is never read and left out.
Missed(pf, s, why) ==
  [pf |-> pf, sig |-> s, status |-> "MISSED", price |-> 0, size |-> 0, entryFee |-> 0,
   entryAt |-> 0, mark |-> NoPrice, exitPrice |-> 0, exitFee |-> 0, pnl |-> 0,
   reason |-> why, exitAt |-> 0]

Opened(pf, s, price, size, fee, at) ==
  [Missed(pf, s, "") EXCEPT !.status = "OPEN", !.price = price, !.size = size,
                            !.entryFee = fee, !.entryAt = at]

-----------------------------------------------------------------------------
(***************************************************************************)
(* The cycle.                                                              *)
(***************************************************************************)

\* Every trade that resolution closed within the window, of any portfolio, with
\* the strength its signal has now: reinforcement after the entry moves the
\* trade to another bucket.
ResolvedTrades(at) ==
  LET resolved == {i \in DOMAIN rows : /\ rows[i].status = "CLOSED"
                                       /\ rows[i].reason = "market_resolved"
                                       /\ rows[i].exitAt >= at - CalibrationConfig.window}
      Record(r) == [cluster |-> ClusterKeyFor(MarketOf[r.sig], EventOf[MarketOf[r.sig]]),
                    score |-> sig[r.sig].score, price |-> SignalPrice[r.sig],
                    won |-> r.exitPrice = 100]
  IN  [i \in DOMAIN PastTrades \cup resolved |->
         IF i \in resolved THEN Record(rows[i]) ELSE PastTrades[i]]

\* run_cycle fixes the cycle's clock, reads the emergency stop once, opens the
\* transaction and computes the calibration all portfolios share.
BeginCycle ==
  /\ txn = NoTxn
  /\ txn' = [at |-> now, stop |-> stop.on, left |-> Portfolios, phase |-> "pick",
             pf |-> CHOOSE pf \in Portfolios : TRUE, base |-> Len(rows), rows |-> rows,
             cash |-> cash, todo |-> NothingToDecide, open |-> {}, dayStart |-> 0,
             realizedToday |-> 0,
             buckets |-> TrustedBuckets(ResolvedTrades(now), CalibrationConfig)]
  /\ UNCHANGED <<services, cash, rows, faults>>

\* The reads that open a portfolio's entries: the ACTIVE signals it has not
\* decided, with the scores they have now, and its daily profit state.
StartPortfolio(pf) ==
  /\ txn # NoTxn /\ txn.phase = "pick" /\ pf \in txn.left
  /\ LET undecided == {s \in Signals : sig[s].status = "ACTIVE"} \ AlreadyDecided(txn, pf)
     IN  txn' = [txn EXCEPT !.phase = "entries", !.pf = pf,
                            !.todo = [s \in Signals |-> IF s \in undecided THEN sig[s].score ELSE 0],
                            !.dayStart = DayStartBankroll(txn, pf),
                            !.realizedToday = RealizedToday(txn, pf)]
  /\ UNCHANGED <<services, cash, rows, faults>>

\* The score a portfolio filters the signal on: its own, or for an adaptive or
\* hidden-alpha portfolio one that is recomputed from today's multipliers.
EntryScores(t, s) == IF Config[t.pf].ownWeights THEN 0..MaxScore ELSE {t.todo[s]}

\* Entry filters, on the signal as loaded and the market as it is now.
PassesEntryFilters(score, q, cfg) ==
  /\ score >= cfg.minWeightedScore
  /\ q.liquidity # NoPrice
  /\ q.liquidity >= cfg.minLiquidity

RiskState(t) ==
  [cash |-> t.cash[t.pf], starting |-> StartingBankroll, dayStart |-> t.dayStart,
   realizedToday |-> t.realizedToday, positions |-> OpenPositions(t), stop |-> t.stop]

\* What pre-check, sizing and guardrails, in this order, make of a signal: the
\* notional to order, or the stage that rejects it.
Gate(t, s) ==
  LET cfg == Config[t.pf]
      st == RiskState(t)
      pHat == PHat(t.buckets, t.todo[s], SignalPrice[s], CalibrationConfig)
      target == TargetNotional(st.cash, Exposure(st.positions), t.todo[s], pHat,
                               SignalPrice[s], cfg)
      risk == Apply(st, [market |-> MarketOf[s], event |-> EventOf[MarketOf[s]],
                         notional |-> target], cfg)
      Rejected(stage) == [stage |-> stage, notional |-> 0]
  IN  IF PreCheck(st, cfg) # "ALLOW" THEN Rejected("RISK")
      ELSE IF target = Skip THEN Rejected("SIZING")
      ELSE IF risk.action = "DENY" THEN Rejected("RISK")
      ELSE [stage |-> "FILL", notional |-> risk.notional]

\* The row the engine writes for an undecided signal on an open market.
Decision(t, s, score, q, gate, fill) ==
  LET cfg == Config[t.pf]
      size == gate.notional \div (100 * fill.price)
  IN  IF ~PassesEntryFilters(score, q, cfg) THEN Missed(t.pf, s, "ENTRY_FILTER")
      ELSE IF gate.stage # "FILL" \/ ~fill.filled THEN Missed(t.pf, s, gate.stage)
      ELSE Opened(t.pf, s, fill.price, size, TakerFee(fill.price, size, FeeRate(q, cfg)), t.at)

\* Strongest signal first.
NextUndecided(t, s) == t.todo[s] > 0 /\ \A o \in Signals : t.todo[o] <= t.todo[s]

\* A closed market leaves its signal undecided: no row, looked at again later.
SkipClosedMarket(s) ==
  /\ txn # NoTxn /\ txn.phase = "entries" /\ NextUndecided(txn, s)
  /\ closed[MarketOf[s]]
  /\ txn' = [txn EXCEPT !.todo[s] = 0]
  /\ UNCHANGED <<services, cash, rows, faults>>

\* Mutant: the bankroll is debited the cost without the entry fee.
DecideSignalFeeless(s) ==
  /\ txn # NoTxn /\ txn.phase = "entries" /\ NextUndecided(txn, s)
  /\ ~closed[MarketOf[s]]
  /\ \E q \in Quotes[txn.pf], score \in EntryScores(txn, s) :
     \E gate \in {Gate(txn, s)} :
     \E fill \in {ComputeFill(SignalPrice[s], gate.notional, q, Config[txn.pf])} :
       LET row == Decision(txn, s, score, q, gate, fill)
       IN  txn' = [txn EXCEPT !.todo[s] = 0, !.rows = Append(@, row),
                              !.cash[txn.pf] = @ - Cost(row)]
  /\ UNCHANGED <<services, cash, rows, faults>>

DecideSignal(s) ==
  /\ txn # NoTxn /\ txn.phase = "entries" /\ NextUndecided(txn, s)
  /\ ~closed[MarketOf[s]]
  /\ \E q \in Quotes[txn.pf], score \in EntryScores(txn, s) :
     \E gate \in {Gate(txn, s)} :
     \E fill \in {ComputeFill(SignalPrice[s], gate.notional, q, Config[txn.pf])} :
       LET row == Decision(txn, s, score, q, gate, fill)
       IN  txn' = [txn EXCEPT !.todo[s] = 0, !.rows = Append(@, row),
                              !.cash[txn.pf] = @ - (Cost(row) + row.entryFee)]
  /\ UNCHANGED <<services, cash, rows, faults>>

\* Mutant: the status condition is missing from the exits' SELECT.
StartExitsOnAllTrades ==
  /\ txn # NoTxn /\ txn.phase = "entries" /\ txn.todo = NothingToDecide
  /\ txn' = [txn EXCEPT !.phase = "exits",
                        !.open = {i \in Visible(txn) : txn.rows[i].pf = txn.pf}]
  /\ UNCHANGED <<services, cash, rows, faults>>

\* Mark-to-market selects the OPEN trades; the exits then go through them.
StartExits ==
  /\ txn # NoTxn /\ txn.phase = "entries" /\ txn.todo = NothingToDecide
  /\ txn' = [txn EXCEPT !.phase = "exits",
                        !.open = OfPortfolio(txn.rows, Visible(txn), txn.pf, "OPEN")]
  /\ UNCHANGED <<services, cash, rows, faults>>

\* The settlement price of a closed market's token: its resolution row when
\* there is one, the last price snapshot otherwise.
ResolutionPrice(s, q) ==
  CASE winner[MarketOf[s]] = "none" -> q.latest
    [] winner[MarketOf[s]] = "void" -> 50
    [] winner[MarketOf[s]] = SideOf[s] -> 100
    [] OTHER -> 0

Closed(row, price, fee, reason, at) ==
  [row EXCEPT !.status = "CLOSED", !.exitPrice = price, !.exitFee = fee,
              !.pnl = Money(price, row.size) - Cost(row) - row.entryFee - fee,
              !.reason = reason, !.exitAt = at]

\* Mutant: a check that found no exit reason closes the trade all the same.
ExitCheckWithoutReason(t, row, q) ==
  LET price == ExitPrice("stay", "NOT_RESOLVED", row.price, q.latest, NoPrice)
  IN  [row |-> Closed(row, price, 0, "stay", t.at),
       credit |-> Money(price, row.size)]

\* The row after its exit check, and what the check credits to the bankroll.
ExitCheck(t, row, q) ==
  LET cfg == Config[t.pf]
      mark == IF q.latest # NoPrice THEN q.latest ELSE row.mark
      resolution == DetectResolution(closed[MarketOf[row.sig]], ResolutionPrice(row.sig, q),
                                     cfg.resolutionThreshold)
      pessimistic == PessimisticExitPrice(row.size, mark, q, cfg)
      reason == IF resolution = "AMBIGUOUS" THEN "stay"
                ELSE CheckExit(row.price, mark, pessimistic, t.at - row.entryAt,
                               t.at - sig[row.sig].born, resolution, cfg)
      price == ExitPrice(reason, resolution, row.price, mark, pessimistic)
      fee == IF reason = "market_resolved" THEN 0 ELSE TakerFee(price, row.size, FeeRate(q, cfg))
      marked == [row EXCEPT !.mark = mark]
  IN  IF reason = "stay"
        THEN [row |-> marked, credit |-> 0]
        ELSE [row |-> Closed(marked, price, fee, reason, t.at),
              credit |-> Money(price, row.size) - fee]

\* The trades are independent of each other: the model takes them by id.
CheckTrade(i) ==
  /\ txn # NoTxn /\ txn.phase = "exits" /\ i \in txn.open /\ \A j \in txn.open : i <= j
  /\ \E q \in Quotes[txn.pf] : \E checked \in {ExitCheck(txn, txn.rows[i], q)} :
       txn' = [txn EXCEPT !.open = @ \ {i}, !.rows[i] = checked.row,
                          !.cash[txn.pf] = @ + checked.credit]
  /\ UNCHANGED <<services, cash, rows, faults>>

FinishPortfolio ==
  /\ txn # NoTxn /\ txn.phase = "exits" /\ txn.open = {}
  /\ txn' = [txn EXCEPT !.phase = "pick", !.left = @ \ {txn.pf}]
  /\ UNCHANGED <<services, cash, rows, faults>>

\* db_session commits when every portfolio is through.
CommitCycle ==
  /\ txn # NoTxn /\ txn.phase = "pick" /\ txn.left = {}
  /\ cash' = txn.cash /\ rows' = txn.rows /\ txn' = NoTxn
  /\ UNCHANGED <<services, faults>>

\* An exception or a crash anywhere in the cycle rolls all of it back.
FailCycle ==
  /\ txn # NoTxn /\ faults < MaxFaults
  /\ txn' = NoTxn /\ faults' = faults + 1
  /\ UNCHANGED <<services, cash, rows>>

-----------------------------------------------------------------------------
Init ==
  /\ sig = [s \in Signals |-> [status |-> "NONE", born |-> 0, score |-> 0]]
  /\ closed = [m \in Markets |-> FALSE]
  /\ winner = [m \in Markets |-> "none"]
  /\ now = 0
  /\ stop = [on |-> FALSE, flips |-> 0]
  /\ cash = [pf \in Portfolios |-> StartingBankroll]
  /\ rows = <<>>
  /\ txn = NoTxn
  /\ faults = 0

Services ==
  \/ \E s \in Signals : CreateSignal(s) \/ ReinforceSignal(s) \/ ExpireSignal(s)
  \/ \E m \in Markets : CloseMarket(m) \/ RecordResolution(m)
  \/ FlipEmergencyStop
  \/ Tick

\* What the cycle does when nothing fails.
Cycle ==
  \/ BeginCycle
  \/ \E pf \in Portfolios : StartPortfolio(pf)
  \/ \E s \in Signals : SkipClosedMarket(s) \/ DecideSignal(s)
  \/ StartExits
  \/ txn # NoTxn /\ \E i \in txn.open : CheckTrade(i)
  \/ FinishPortfolio
  \/ CommitCycle

Next == Services \/ Cycle \/ FailCycle

Spec == Init /\ [][Next]_vars

\* The paper job is rescheduled forever (app/scheduler/runner.py), so a cycle
\* that can take a step eventually takes it; time passes.  Consensus, the
\* market collectors and the operator owe the engine nothing.  (A cycle's step never
\* changes their tables: saying so first spares TLC most of the work.)
FairSpec == Spec /\ WF_vars(UNCHANGED services /\ Cycle) /\ WF_vars(Tick)

-----------------------------------------------------------------------------
(***************************************************************************)
(* Properties.                                                             *)
(***************************************************************************)
Reasons ==
  {"", "ENTRY_FILTER", "RISK", "SIZING", "FILL", "market_resolved", "take_profit", "stop_loss",
   "signal_expired", "scalp_take_profit", "scalp_breakeven", "scalp_max_hold"}

RowType ==
  [pf : Portfolios, sig : Signals, status : {"OPEN", "CLOSED", "MISSED"}, price : Int,
   size : Int, entryFee : Int, entryAt : 0..MaxTime, mark : Int \cup {NoPrice},
   exitPrice : Int, exitFee : Int, pnl : Int, reason : Reasons, exitAt : 0..MaxTime]

TxnType ==
  [at : 0..MaxTime, stop : BOOLEAN, left : SUBSET Portfolios,
   phase : {"pick", "entries", "exits"}, pf : Portfolios, base : Nat, rows : Seq(RowType),
   cash : [Portfolios -> Int], todo : [Signals -> 0..MaxScore],
   open : SUBSET Nat, dayStart : Int, realizedToday : Int,
   buckets : SUBSET [key : Seq(Nat), pHat : 0..100]]

\* Type invariant of the engine's tables and of a running cycle.
TypeOK ==
  /\ sig \in [Signals -> [status : {"NONE", "ACTIVE", "EXPIRED"}, born : 0..MaxTime,
                          score : 0..MaxScore]]
  /\ closed \in [Markets -> BOOLEAN]
  /\ winner \in [Markets -> Sides \cup {"none", "void"}]
  /\ now \in 0..MaxTime
  /\ stop \in [on : BOOLEAN, flips : 0..MaxStops]
  /\ cash \in [Portfolios -> Int]
  /\ rows \in Seq(RowType)
  /\ txn = NoTxn \/ txn \in TxnType
  /\ faults \in 0..MaxFaults

Balanced(bankroll, rs) ==
  \A pf \in Portfolios :
    bankroll[pf] = StartingBankroll
      + SumFunction([i \in OfPortfolio(rs, DOMAIN rs, pf, "CLOSED") |-> rs[i].pnl])
      - SumFunction([i \in OfPortfolio(rs, DOMAIN rs, pf, "OPEN") |->
                       Cost(rs[i]) + rs[i].entryFee])

\* Double entry: the bankroll is the starting bankroll, plus what the closed
\* trades realized, less what the open ones cost with their fees, at every
\* step of a cycle and after it: no entry, exit, rollback or retry of a cycle
\* creates or loses money (_run_entries, _run_exits and db_session).
LedgerBalances == Balanced(cash, rows) /\ (txn # NoTxn => Balanced(txn.cash, txn.rows))

DecidedOnce(rs) ==
  \A i, j \in DOMAIN rs : rs[i].pf = rs[j].pf /\ rs[i].sig = rs[j].sig => i = j

\* "Exactly one row per (portfolio_id, signal_id) ever" (PaperTrade): cycles
\* that overlap signal updates, are rolled back or are run again never decide
\* a signal twice for a portfolio.
OneDecisionPerSignal == DecidedOnce(rows)

WithinCap(rs) ==
  \A pf \in Portfolios :
    "MAX_OPEN_POSITIONS" \in Config[pf].enabled =>
      Cardinality(OfPortfolio(rs, DOMAIN rs, pf, "OPEN")) <= Config[pf].maxOpenPositions

\* rule_max_open_positions as a property of the table: however many signals
\* one cycle enters, the portfolio never holds more positions than the cap.
OpenCountWithinCap == WithinCap(rows)

HeldIn(rs, pf, ms) ==
  SumFunction([i \in {j \in OfPortfolio(rs, DOMAIN rs, pf, "OPEN") :
                        MarketOf[rs[j].sig] \in ms} |-> Cost(rs[i])])

SameEvent(m) == {o \in Markets : EventOf[o] = EventOf[m]}

\* The three exposure ceilings of app/risk/rules.py hold together after every
\* entry, whichever of them resized it: the market's, its event's and the
\* portfolio's open notional each stay, where its rule is enabled, within their
\* share of the bankroll the entry was decided on.
EntryKeepsExposureCaps ==
  [][ \A s \in Signals : DecideSignal(s) /\ Last(txn'.rows).status = "OPEN" =>
        LET cfg == Config[txn.pf]
            bankroll == txn.cash[txn.pf]
            market == MarketOf[s]
        IN  /\ "MAX_MARKET_EXPOSURE" \in cfg.enabled =>
                 HeldIn(txn'.rows, txn.pf, {market}) <= Pct(cfg.maxMarketExposurePct, bankroll)
            /\ "MAX_CORRELATED_EXPOSURE" \in cfg.enabled /\ EventOf[market] # NoEvent =>
                 HeldIn(txn'.rows, txn.pf, SameEvent(market)) <= Pct(cfg.maxCorrelatedExposurePct, bankroll)
            /\ "MAX_TOTAL_EXPOSURE" \in cfg.enabled =>
                 HeldIn(txn'.rows, txn.pf, Markets) <= Pct(cfg.maxExposurePct, bankroll) ]_vars

SameDecision(old, new) ==
  /\ old.pf = new.pf /\ old.sig = new.sig
  /\ old.status # "OPEN" => new = old
  /\ old.status = "OPEN" => /\ new.status \in {"OPEN", "CLOSED"}
                            /\ <<new.price, new.size, new.entryFee, new.entryAt>>
                                 = <<old.price, old.size, old.entryFee, old.entryAt>>

\* "One decision ... ever - no retries" (docs/PHASE4_DESIGN.md, flag 2): a
\* committed row is never deleted; a missed or closed one never changes, and
\* an open one keeps its entry and can only close.
DecisionsAreFinal ==
  [][ /\ Len(rows') >= Len(rows)
      /\ \A i \in DOMAIN rows : SameDecision(rows[i], rows'[i]) ]_rows

\* What a portfolio has made of a signal: the status of its row.
StatusIn(rs, pf, s) ==
  LET ids == {i \in DOMAIN rs : rs[i].pf = pf /\ rs[i].sig = s}
  IN  IF ids = {} THEN "none" ELSE rs[CHOOSE i \in ids : TRUE].status

Lifecycle == INSTANCE TradeLifecycle
               WITH decision <- [k \in Portfolios \X Signals |-> StatusIn(rows, k[1], k[2])]

\* The engine's transactions implement the trade lifecycle: seen from the
\* committed table, a whole cycle is one step in which every signal keeps its
\* decision, gets its only one, or has its trade closed, and no trade opens
\* and closes in the same cycle (autoflush is off, app/db/session.py).
ImplementsLifecycle == Lifecycle!Spec

\* check_exit: resolution is ground truth and "must never be miscategorized":
\* a trade leaves for another reason only while its market is open, and a
\* resolved one leaves at its payout and pays no taker fee.
ResolutionIsGroundTruth ==
  [][ txn # NoTxn /\ txn' # NoTxn =>
        \A i \in DOMAIN txn.rows :
          txn.rows[i].status = "OPEN" /\ txn'.rows[i].status = "CLOSED" =>
            LET row == txn'.rows[i]
            IN  /\ row.reason = "market_resolved" <=> closed[MarketOf[row.sig]]
                /\ row.reason = "market_resolved" =>
                     /\ row.exitFee = 0
                     /\ winner[MarketOf[row.sig]] = SideOf[row.sig] => row.exitPrice = 100
                     /\ winner[MarketOf[row.sig]] \in Sides \ {SideOf[row.sig]} =>
                          row.exitPrice = 0 ]_txn

\* The hour after which a portfolio's exit ladder closes a trade whatever its
\* price does.
Deadline(row) ==
  IF Config[row.pf].useScalpExit
    THEN row.entryAt + Config[row.pf].scalpMaxHoldHours
    ELSE sig[row.sig].born + Config[row.pf].exitOnSignalExpiryHours

Ambiguous(row) == closed[MarketOf[row.sig]] /\ winner[MarketOf[row.sig]] \in {"none", "void"}

\* No trade stays open for good: in the end every one whose deadline has passed is
\* closed, unless its market closed without a clear outcome, the one state in
\* which the engine leaves capital stuck (_run_exits).
OpenTradesClose ==
  <>[](\A i \in DOMAIN rows :
         rows[i].status = "OPEN" /\ Deadline(rows[i]) < MaxTime => Ambiguous(rows[i]))
=============================================================================
