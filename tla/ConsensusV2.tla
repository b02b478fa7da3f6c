----------------------------- MODULE ConsensusV2 -----------------------------
(***************************************************************************)
(* The consensus_prob portfolio (app/consensus_v2): a scan settles or      *)
(* expires the open trades, then asks for each market what probability the *)
(* clusters' positions imply (probability.py), and where it differs enough *)
(* from the live book it stores a signal and may enter a trade.  Each      *)
(* market is a transaction of its own, after a request that takes a while. *)
(*                                                                         *)
(* Probabilities, scores and fractions are whole percents, prices cents,   *)
(* sizes whole shares, positions any unit of money; a trade's current_price is *)
(* never set by any code, so that only a settlement or its age ends it.    *)
(***************************************************************************)
EXTENDS Settlement, CoTrading, CategoryScoring

CONSTANTS
  Scanned,          \* the candidate markets that clear the liquidity filters
  Category,         \* the markets' category
  Exposures,        \* the open positions a market may show: sets of [wallet, side, usd]
  V2Books,          \* the live books: [bid, asks], asks a sequence of [price, size]
  EventOf,          \* markets.event_cluster_id
  PastDiffs,        \* [event, diff] of each signal settled before the model starts
  MaxWeightPct,     \* consensus_prob_max_cluster_weight_fraction
  ClustersTarget,   \* consensus_prob_confidence_n_clusters_target
  NotionalTarget,   \* consensus_prob_confidence_notional_target
  MinDivergence,    \* consensus_prob_min_divergence
  MinConfidence,    \* consensus_prob_min_confidence
  FixedPct,         \* consensus_prob_fixed_fraction_pct
  GateMinN,         \* consensus_prob_kelly_min_effective_n
  GateMinT,         \* consensus_prob_kelly_min_t_stat, in tenths
  V2Fee,            \* consensus_prob_fee_rate_default
  KellyConfig,      \* the settings of Kelly's stake and the book's depth, as PaperRisk has them
  ExpiryHours,      \* paper_exit_on_signal_expiry_hours
  V2Start,          \* consensus_prob_starting_bankroll
  MaxTime           \* bound: the clock stops here

ASSUME V2Constants ==
  /\ Scanned \subseteq Markets /\ MaxWeightPct \in 1..100 /\ ClustersTarget \in Nat \ {0}
  /\ NotionalTarget \in Nat \ {0} /\ ExpiryHours \in Nat /\ V2Start \in Nat /\ MaxTime \in Nat
  /\ V2Fee \in 0..100 /\ FixedPct \in 0..100 /\ KellyConfig.kellyFeePct = V2Fee
  /\ KellyConfig.kellyFractionPct \in Nat /\ KellyConfig.maxPositionPct \in Nat
  /\ \A rows \in Exposures : IsFiniteSet(rows) /\ \A r \in rows : r.usd \in Int
  /\ \A book \in V2Books :
       /\ book.bid \in Int
       /\ book.asks \in Seq([price : 1..99, size : Nat \ {0}]) /\ book.asks # <<>>

VARIABLES
  now,
  signals,          \* signals_prob, oldest first
  trades,           \* signal_prob_trades, oldest first
  v2Cash,           \* the portfolio's current_bankroll
  v2                \* the running scan, or NoTxn

v2Vars == <<now, signals, trades, v2Cash, v2>>

NotFilled == -1

\* A row of signals_prob; outcome is NotFilled until its trade settles.
SignalRow(m, p, price) == [market |-> m, p |-> p, price |-> price, outcome |-> NotFilled]

\* A row of signal_prob_trades; paid is what its exit credited.
TradeRow(signal, m, price, size, fee) ==
  [signal |-> signal, token |-> [market |-> m, side |-> "yes"], price |-> price, size |-> size,
   fee |-> fee, at |-> now, exit |-> Unsettled, paid |-> 0, reason |-> "none"]

-----------------------------------------------------------------------------
(***************************************************************************)
(* probability.py.                                                         *)
(***************************************************************************)
Usd(rows, cluster, side) ==
  SumFunction([r \in {q \in rows : ClusterOf(q.wallet) = cluster /\ q.side = side} |-> r.usd])

Net(rows, c) == Usd(rows, c, "yes") - Usd(rows, c, "no")

\* The clusters with a direction; a hedged one has no opinion.
Opinions(rows) == {c \in {ClusterOf(r.wallet) : r \in rows} : Net(rows, c) # 0}

\* A cluster scores as its best member does.
Score(rows, c) ==
  Max({CategoryScore(r.wallet, Category) : r \in {q \in rows : ClusterOf(q.wallet) = c}})

Weights(rows) == [c \in Opinions(rows) |-> Score(rows, c) * Distance(Net(rows, c), 0)]

\* Mutant: a weight is cut to its share of the total before the cut, and stays.
CapOnce(weights) ==
  [c \in DOMAIN weights |-> Smaller(100 * weights[c], MaxWeightPct * SumFunction(weights))]

\* c exceeds its share of the total that capping it and all that weigh as much
\* would leave.
TooHeavy(weights, c) ==
  LET heavy == {d \in DOMAIN weights : weights[d] >= weights[c]}
      left == 100 - Cardinality(heavy) * MaxWeightPct
  IN  /\ left > 0
      /\ weights[c] * left > MaxWeightPct * SumFunctionOnSet(weights, DOMAIN weights \ heavy)

\* The heaviest are peeled off as long as they are too heavy; the one too heavy
\* cluster that weighs least decides.
Capped(weights) ==
  {d \in DOMAIN weights :
     \E c \in DOMAIN weights : weights[d] >= weights[c] /\ TooHeavy(weights, c)}

\* The weights with the heaviest capped at MaxWeightPct of the capped total, or
\* all equal where no cap can hold; up to a common factor, which does not matter.
CapClusterWeights(weights) ==
  LET capped == Capped(weights)
      left == 100 - Cardinality(capped) * MaxWeightPct
      free == SumFunctionOnSet(weights, DOMAIN weights \ capped)
  IN  CASE capped = {} -> weights
        [] capped # {} /\ capped = DOMAIN weights -> [c \in DOMAIN weights |-> 1]
        [] OTHER -> [c \in DOMAIN weights |->
                       IF c \in capped THEN MaxWeightPct * free ELSE weights[c] * left]

Signed(rows, weights) ==
  SumFunction([c \in DOMAIN weights |-> IF Net(rows, c) > 0 THEN weights[c] ELSE -weights[c]])

\* The weighted vote of the clusters, from 0 to 100.
PConsensus(rows) ==
  LET capped == CapClusterWeights(Weights(rows))
  IN  (50 * (Signed(rows, capped) + SumFunction(capped))) \div SumFunction(capped)

\* One less the deviation of the weighted signs, whose mean is their lean.
Agreement(rows, weights) ==
  LET lean == (100 * Distance(Signed(rows, weights), 0)) \div SumFunction(weights)
  IN  Max({a \in 0..100 : (100 - a) * (100 - a) >= 10000 - lean * lean})

\* Whether the confidence, the product of how many clusters there are, how much
\* they agree, what they hold and how they score, reaches MinConfidence.
Confident(rows) ==
  LET weights == Weights(rows)
      notional == SumFunction([c \in DOMAIN weights |-> Distance(Net(rows, c), 0)])
      score == SumFunction(weights) \div notional
      reach == (100 * Smaller(Cardinality(DOMAIN weights), ClustersTarget)) \div ClustersTarget
      size == (100 * Smaller(notional, NotionalTarget)) \div NotionalTarget
  IN  (((reach * size) \div 100) * ((Agreement(rows, weights) * score) \div 100)) \div 100
        >= MinConfidence

-----------------------------------------------------------------------------
(***************************************************************************)
(* paired_brier.py: whether the signals settled so far beat the market.    *)
(***************************************************************************)
\* The market's Brier score less the consensus's, in percents.
PairedDiff(s) ==
  ((s.price - s.outcome) * (s.price - s.outcome) - (s.p - s.outcome) * (s.p - s.outcome)) \div 100

\* The differences of the signals settled so far, the earlier ones first.
Diffs ==
  LET settled == SelectSeq(signals, LAMBDA s : s.outcome # NotFilled)
  IN  PastDiffs \o [i \in DOMAIN settled |->
                      [event |-> EventOf[settled[i].market], diff |-> PairedDiff(settled[i])]]

\* The mean over the event clusters of their mean differences, with a t-statistic
\* of at least GateMinT.
KellyGatePasses ==
  \E diffs \in {Diffs} :
    LET ofEvent(e) == {i \in DOMAIN diffs : diffs[i].event = e}
        clusters == {diffs[i].event : i \in DOMAIN diffs}
    IN  \E mean \in {[e \in clusters |-> SumFunction([i \in ofEvent(e) |-> diffs[i].diff])
                                           \div Cardinality(ofEvent(e))]} :
          LET n == Cardinality(clusters)
              total == SumFunction(mean)
              spread == SumFunction([e \in clusters |->
                                       (n * mean[e] - total) * (n * mean[e] - total)])
          IN  /\ n >= 2 /\ n >= GateMinN /\ total > 0 /\ spread > 0
              /\ 100 * total * total * n * (n - 1) >= GateMinT * GateMinT * spread

-----------------------------------------------------------------------------
(***************************************************************************)
(* The scan.                                                               *)
(***************************************************************************)
Tick ==
  /\ now < MaxTime /\ now' = now + 1
  /\ UNCHANGED <<signals, trades, v2Cash, v2, events>>

OpenTrades == {i \in DOMAIN trades : trades[i].exit = Unsettled}

Settled == {i \in OpenTrades : IsSettled(trades[i].token)}

\* Mutant: a trade's age is not looked at.
ExpiredNever == {}

Expired == {i \in OpenTrades \ Settled : now - trades[i].at > ExpiryHours}

\* A trade leaves at its payout without fee, or for its age at its entry price,
\* with the exit fee.
Exited(i) ==
  LET t == trades[i]
      fee == TakerFee(t.price, t.size, V2Fee)
  IN  CASE i \in Settled ->
             [t EXCEPT !.exit = Redeemed(t.token), !.reason = "market_resolved",
                       !.paid = 100 * t.size * Redeemed(t.token)]
        [] i \in Expired ->
             [t EXCEPT !.exit = t.price, !.reason = "signal_expired",
                       !.paid = 100 * t.size * t.price - fee]
        [] OTHER -> t

\* Mutant: an exit for age fills the Brier columns too.
FilledByAnyExit(i) ==
  LET mine == {t \in Settled \cup Expired : trades[t].signal = i}
  IN  IF mine = {} THEN signals[i] ELSE [signals[i] EXCEPT !.outcome = Exited(Max(mine)).exit]

\* A signal's Brier columns are filled once, by its trade's settlement.
Filled(i) ==
  LET mine == {t \in Settled : trades[t].signal = i}
  IN  IF mine = {} \/ signals[i].outcome # NotFilled THEN signals[i]
      ELSE [signals[i] EXCEPT !.outcome = Redeemed(trades[Max(mine)].token)]

ResolveTrades ==
  /\ v2 = NoTxn
  /\ trades' = [i \in DOMAIN trades |-> Exited(i)]
  /\ signals' = [i \in DOMAIN signals |-> Filled(i)]
  /\ v2Cash' = v2Cash + SumFunction([i \in Settled \cup Expired |-> (trades'[i]).paid])
  /\ v2' = [at |-> now, todo |-> {m \in Scanned : ~closed[m]}, found |-> <<>>]
  /\ UNCHANGED <<now, events>>

\* The mid price of the live book, rounded down.
PMarket(book) == (book.bid + book.asks[1].price) \div 2

\* What a market whose positions and book diverge enough may show.
Divergences ==
  {d \in {[p |-> PConsensus(rows), price |-> PMarket(book), asks |-> book.asks, rows |-> rows] :
            rows \in {r \in Exposures : SumFunction(CapClusterWeights(Weights(r))) > 0 /\ Confident(r)},
            book \in V2Books} :
     Distance(d.p, d.price) >= MinDivergence}

\* The positions are read and the book is fetched.
ScanOneMarket(m) ==
  /\ v2 # NoTxn /\ v2.found = <<>> /\ m \in v2.todo
  /\ \/ /\ v2' = [v2 EXCEPT !.todo = @ \ {m}] /\ UNCHANGED events
     \/ /\ Event
        /\ \E d \in Divergences :
             v2' = [v2 EXCEPT !.todo = @ \ {m},
                      !.found = <<[signal |-> SignalRow(m, d.p, d.price), asks |-> d.asks,
                                   rows |-> d.rows]>>]
  /\ UNCHANGED <<now, signals, trades, v2Cash>>

HasOpenTrade(m) == \E i \in OpenTrades : trades[i].token.market = m

\* Kelly's stake once the gate passes and there is an edge, a fixed fraction else.
TargetNotionalV2(signal, asks) ==
  LET kelly == SizeKellyPosition(v2Cash, signal.p, asks[1].price, KellyConfig)
  IN  IF KellyGatePasses /\ kelly # Skip THEN kelly ELSE Pct(FixedPct, v2Cash)

\* Mutant: the fee is not part of what must be affordable.
CostWithoutFee(price, size) == 100 * size * price

Cost(price, size) == 100 * size * price + TakerFee(price, size, V2Fee)

\* A signal is stored unless its market has an open trade; a trade is entered if
\* the divergence is positive, the book fills the stake and the bankroll pays it.
EnterSignal ==
  /\ v2 # NoTxn /\ v2.found # <<>>
  /\ v2' = [v2 EXCEPT !.found = <<>>]
  /\ \E signal \in {v2.found[1].signal} :
       IF HasOpenTrade(signal.market) THEN UNCHANGED <<signals, trades, v2Cash>>
       ELSE /\ signals' = Append(signals, signal)
            /\ \E notional \in {TargetNotionalV2(signal, v2.found[1].asks)} :
               \E price \in {WalkTheBook(v2.found[1].asks, notional, KellyConfig)} :
                 LET size == notional \div (100 * price)
                 IN  IF /\ signal.p > signal.price /\ notional > 0 /\ price # NoPrice
                        /\ size > 0 /\ Cost(price, size) <= v2Cash
                       THEN /\ trades' = Append(trades,
                                 [TradeRow(Len(signals) + 1, signal.market, price, size,
                                           TakerFee(price, size, V2Fee)) EXCEPT !.at = v2.at])
                            /\ v2Cash' = v2Cash - Cost(price, size)
                       ELSE UNCHANGED <<trades, v2Cash>>
  /\ UNCHANGED <<now, events>>

FinishScan ==
  /\ v2 # NoTxn /\ v2.found = <<>> /\ v2.todo = {}
  /\ v2' = NoTxn
  /\ UNCHANGED <<now, signals, trades, v2Cash, events>>

\* A request that raises, or the end of the process.
FailV2 ==
  /\ v2 # NoTxn /\ Event /\ v2' = NoTxn
  /\ UNCHANGED <<now, signals, trades, v2Cash>>

-----------------------------------------------------------------------------
V2Init ==
  /\ FeedInit /\ events = 0
  /\ now = 0 /\ signals = <<>> /\ trades = <<>> /\ v2Cash = V2Start /\ v2 = NoTxn

\* One run of the job.
RunConsensusV2Scan ==
  ResolveTrades \/ (\E m \in Scanned : ScanOneMarket(m)) \/ EnterSignal \/ FinishScan

v2All == <<feedVars, v2Vars, events>>

V2Next ==
  \/ (Tick \/ RunConsensusV2Scan \/ FailV2) /\ UNCHANGED feedVars
  \/ FeedNext /\ UNCHANGED <<v2Vars, events>>

\* run_jobs starts the scan again after every interval, failed or not.
V2Spec ==
  /\ V2Init /\ [][V2Next]_v2All
  /\ WF_v2All(RunConsensusV2Scan /\ UNCHANGED feedVars)

-----------------------------------------------------------------------------
(***************************************************************************)
(* Properties.                                                             *)
(***************************************************************************)
\* The bankroll is the start less every entry and its fee, plus what the exits
\* paid, and is never overdrawn (_enter_signal_blocking debits in one
\* transaction per market, _resolve_open_trades_blocking credits in another).
V2Ledger ==
  /\ v2Cash >= 0
  /\ v2Cash = V2Start + SumFunction([i \in DOMAIN trades |->
                 trades[i].paid - 100 * trades[i].size * trades[i].price - trades[i].fee])

\* The paired Brier score is of settlements only: a signal has an outcome exactly
\* if a trade of its own was held until its market settled, at that price; a
\* signal without a trade, and one whose trade left for its age, never has one.
BrierIsOfSettlements ==
  \A i \in DOMAIN signals :
    LET mine == {t \in DOMAIN trades : trades[t].signal = i}
    IN  /\ Cardinality(mine) <= 1
        /\ signals[i].outcome # NotFilled <=> \E t \in mine : trades[t].reason = "market_resolved"
        /\ \A t \in mine :
             trades[t].reason = "market_resolved" => signals[i].outcome = trades[t].exit

\* "No one cluster is more than X% of the consensus" (probability.py:39-62): the
\* capped weights keep it self-consistently, unless so few clusters have an
\* opinion that no weights could, and then all count alike.
NoClusterDominates ==
  v2 # NoTxn /\ v2.found # <<>> =>
    LET capped == CapClusterWeights(Weights(v2.found[1].rows))
    IN  \A c \in DOMAIN capped :
          IF Cardinality(DOMAIN capped) * MaxWeightPct > 100
            THEN 100 * capped[c] <= MaxWeightPct * SumFunction(capped)
            ELSE \A d \in DOMAIN capped : capped[c] = capped[d]

\* No trade is kept past its age or its market's settlement for good, whatever
\* scans fail in between.
TradesLeave ==
  \A i \in 1..MaxEvents :
    []<>~(i \in OpenTrades /\ (now - trades[i].at > ExpiryHours \/ i \in Settled))
=============================================================================
