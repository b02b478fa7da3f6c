---------------------------- MODULE PaperPricing ----------------------------
(***************************************************************************)
(* Prices of simulated fills and exits: the pure functions of              *)
(* app/paper/fills.py, app/paper/fees.py, app/paper/resolution.py,         *)
(* app/paper/exits_scalp.py and the exit ladder of app/paper/engine.py.    *)
(*                                                                         *)
(* Units are those of PaperRisk.  A feed is what the collectors have       *)
(* stored about a signal's token: the market row's liquidity (in dollars), *)
(* best ask and best bid, the price snapshots in the order of their        *)
(* capture, the ask side of the order book, a sequence of [price, size],   *)
(* and the fee rate.  A snapshot is [after, price], its capture in seconds *)
(* after the signal was created, and cycleAfter is when the cycle started. *)
(* A field nobody has collected is NoPrice.                                *)
(***************************************************************************)
EXTENDS PaperRisk

CONSTANT NoPrice    \* a price, a liquidity or a book nobody has collected

MinLiquidity == 1

-----------------------------------------------------------------------------
(***************************************************************************)
(* Reading a feed.                                                         *)
(***************************************************************************)
LatestPrice(feed) ==
  IF feed.snapshots = <<>> THEN NoPrice ELSE feed.snapshots[Len(feed.snapshots)].price

\* The first snapshot an entry could have reacted to, unless the cycle started
\* before it was captured.
DelayedPrice(feed, delay) ==
  LET late == {i \in DOMAIN feed.snapshots : feed.snapshots[i].after >= delay}
  IN  CASE late = {} -> NoPrice
        [] late # {} /\ feed.snapshots[Least(late)].after > feed.cycleAfter -> NoPrice
        [] OTHER -> feed.snapshots[Least(late)].price

\* An empty side of the book counts as no book.
Book(feed) == IF feed.book = <<>> THEN NoPrice ELSE feed.book

\* What an entry, with its delay, and an exit read.
Observation(feed, delay) ==
  [liquidity |-> feed.liquidity, ask |-> feed.ask, bid |-> feed.bid,
   latest |-> LatestPrice(feed), delayed |-> DelayedPrice(feed, delay), book |-> Book(feed),
   feeRate |-> feed.feeRate]

FeeRate(q, cfg) == IF q.feeRate # NoPrice THEN q.feeRate ELSE cfg.feeRate

-----------------------------------------------------------------------------
(***************************************************************************)
(* Walking the book.  An order for `notional` takes from each level what   *)
(* is left of it after the levels before; the average price is its cost    *)
(* over the shares it gets.                                                *)
(***************************************************************************)
LevelValue(book, i) == 100 * book[i].price * book[i].size

DepthBefore(book, i) == SumFunction([j \in 1..(i - 1) |-> LevelValue(book, j)])

TakenAt(book, notional, i) ==
  Smaller(LevelValue(book, i), Larger(0, notional - DepthBefore(book, i)))

\* Shares are counted in thousandths, so that a part of a share counts.
WalkTheBook(book, notional, cfg) ==
  LET depth == DepthBefore(book, Len(book) + 1)
      milliShares == SumFunction(
        [i \in DOMAIN book |-> (10 * TakenAt(book, notional, i)) \div book[i].price])
  IN  IF notional <= 0 \/ notional > Pct(cfg.maxBookDepthPct, depth)
           \/ notional > depth \/ milliShares = 0
        THEN NoPrice
        ELSE (10 * notional) \div milliShares

SlippagePenalty(notional, liquidity, cfg) ==
  Smaller((cfg.slippageK * notional) \div (10000 * liquidity), cfg.slippageMax)

Distance(a, b) == IF a >= b THEN a - b ELSE b - a

NoFill(reason) == [filled |-> FALSE, price |-> NoPrice, reason |-> reason]

FilledAt(price) == [filled |-> TRUE, price |-> price, reason |-> "FILLED"]

\* One simulated fill.  The reference price is the delayed snapshot when there
\* is one, the ask otherwise; a book that cannot honestly fill the order
\* rejects it, no book at all falls back to the estimate.
ComputeFill(signalPrice, notional, q, cfg) ==
  LET reference == IF q.delayed # NoPrice THEN q.delayed ELSE q.ask
      walked == WalkTheBook(q.book, notional, cfg)
      lateness == IF q.delayed = NoPrice THEN cfg.noDelayedSnapshotPenalty ELSE 0
  IN  CASE q.liquidity = NoPrice -> NoFill("NO_LIQUIDITY")
        [] q.liquidity # NoPrice /\ (q.liquidity < MinLiquidity \/ reference = NoPrice) ->
             NoFill("NO_LIQUIDITY")
        [] OTHER ->
             CASE 100 * Distance(reference, signalPrice) > cfg.maxDriftPct * signalPrice ->
                    NoFill("MISSED_DRIFT")
               [] OTHER ->
                    CASE q.book # NoPrice /\ walked = NoPrice -> NoFill("NO_LIQUIDITY")
                      [] q.book # NoPrice /\ walked # NoPrice -> FilledAt(walked)
                      [] OTHER ->
                           FilledAt(reference
                                    + SlippagePenalty(notional, q.liquidity, cfg) + lateness)

\* size * rate * price * (1 - price).
TakerFee(price, size, rate) == (size * rate * price * (100 - price)) \div 100

-----------------------------------------------------------------------------
\* NOT_RESOLVED while the market trades; AMBIGUOUS when it closed at a price
\* near neither outcome.
DetectResolution(closed, price, threshold) ==
  CASE ~closed -> "NOT_RESOLVED"
    [] closed /\ price = NoPrice -> "AMBIGUOUS"
    [] OTHER -> CASE price >= 100 - threshold -> "WON"
                  [] price < 100 - threshold /\ price <= threshold -> "LOST"
                  [] OTHER -> "AMBIGUOUS"

\* The bid (or the last mark) less the slippage a sale of the position pays.
PessimisticExitPrice(size, mark, q, cfg) ==
  LET reference == IF q.bid # NoPrice THEN q.bid ELSE mark
  IN  IF reference = NoPrice \/ q.liquidity = NoPrice
        THEN NoPrice
        ELSE IF q.liquidity < MinLiquidity
               THEN NoPrice
               ELSE reference
                    - SlippagePenalty(100 * size * reference, q.liquidity, cfg)

\* The scalp ladder: a small gain, a bounce back to near even, the hold limit.
CheckScalpExit(entry, pessimistic, held, cfg) ==
  CASE pessimistic # NoPrice /\ pessimistic - entry >= cfg.scalpTakeProfit ->
         "scalp_take_profit"
    [] pessimistic # NoPrice /\ 0 < entry - pessimistic
         /\ entry - pessimistic <= cfg.scalpBreakevenTolerance -> "scalp_breakeven"
    [] OTHER -> IF held > cfg.scalpMaxHoldHours THEN "scalp_max_hold" ELSE "stay"

\* Mutant: resolution is looked at after the portfolio's own rules.
CheckExitResolutionLast(entry, mark, pessimistic, held, signalAge, resolution, cfg) ==
  CASE mark # NoPrice /\ 100 * mark >= entry * (100 + cfg.takeProfitPct) -> "take_profit"
    [] mark # NoPrice /\ 100 * mark <= entry * (100 - cfg.stopLossPct) -> "stop_loss"
    [] OTHER -> IF signalAge > cfg.exitOnSignalExpiryHours THEN "signal_expired"
                ELSE IF resolution \in {"WON", "LOST"} THEN "market_resolved" ELSE "stay"

\* Mutant: the rule on the age of the signal is missing.
CheckExitWithoutExpiry(entry, mark, pessimistic, held, signalAge, resolution, cfg) ==
  CASE resolution \in {"WON", "LOST"} -> "market_resolved"
    [] resolution = "NOT_RESOLVED" /\ cfg.useScalpExit ->
         CheckScalpExit(entry, pessimistic, held, cfg)
    [] OTHER ->
         CASE mark # NoPrice /\ 100 * mark >= entry * (100 + cfg.takeProfitPct) -> "take_profit"
           [] mark # NoPrice /\ 100 * mark <= entry * (100 - cfg.stopLossPct) -> "stop_loss"
           [] OTHER -> "stay"

\* The exit ladder: resolution first, then the portfolio's own rules.  held
\* and signalAge are in hours.
CheckExit(entry, mark, pessimistic, held, signalAge, resolution, cfg) ==
  CASE resolution \in {"WON", "LOST"} -> "market_resolved"
    [] resolution = "NOT_RESOLVED" /\ cfg.useScalpExit ->
         CheckScalpExit(entry, pessimistic, held, cfg)
    [] OTHER ->
         CASE mark # NoPrice /\ 100 * mark >= entry * (100 + cfg.takeProfitPct) -> "take_profit"
           [] mark # NoPrice /\ 100 * mark <= entry * (100 - cfg.stopLossPct) -> "stop_loss"
           [] OTHER -> IF signalAge > cfg.exitOnSignalExpiryHours
                         THEN "signal_expired" ELSE "stay"

\* The price a position leaves at, for the reason it leaves.
ExitPrice(reason, resolution, entry, mark, pessimistic) ==
  LET marked == IF mark # NoPrice THEN mark ELSE entry
  IN  CASE reason = "market_resolved" -> (IF resolution = "WON" THEN 100 ELSE 0)
        [] reason \in {"scalp_take_profit", "scalp_breakeven", "scalp_max_hold"} ->
             (IF pessimistic # NoPrice THEN pessimistic ELSE marked)
        [] OTHER -> marked
=============================================================================
