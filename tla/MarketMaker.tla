----------------------------- MODULE MarketMaker -----------------------------
(***************************************************************************)
(* Wallets whose positions are inventory and no opinion                    *)
(* (app/optimization/market_maker.py): fast round trips, both sides of the *)
(* same markets, or many markets shallowly.  Scores are whole percents.    *)
(***************************************************************************)
EXTENDS WalletRecords

CONSTANTS
  BreadthReference,  \* market_maker_breadth_reference
  DepthReference,    \* market_maker_depth_reference_usd
  MakerThreshold,    \* market_maker_score_threshold
  MakerMode          \* market_maker_mode

ASSUME MarketMakerSettings ==
  /\ BreadthReference \in Nat \ {0} /\ DepthReference \in Nat \ {0}
  /\ MakerThreshold \in 0..100 /\ MakerMode \in {"downweight", "exclude"}

Percent(x) == Max({0, Min({100, x})})

\* The k-th smallest of a function's values: the greatest with fewer than k below.
Smallest(f, k) == Max({v \in Range(f) : Cardinality({x \in DOMAIN f : f[x] < v}) < k})

\* The middle one, or the mean of the middle two, of a function's values.
Median(f) ==
  LET n == Cardinality(DOMAIN f)
  IN  (Smallest(f, (n + 1) \div 2) + Smallest(f, (n + 2) \div 2)) \div 2

OpensOf(w) == {e \in FreshOpens : e.wallet = w}

\* A close, with the latest open of that outcome since the close before it.
RoundTrips(w) ==
  LET mine == {e \in Observed : e.wallet = w}
      same(e, f) == e.market = f.market /\ e.side = f.side
  IN  {t \in OpensOf(w) \X {e \in mine : e.event = "CLOSED"} :
         /\ same(t[1], t[2]) /\ t[1].at <= t[2].at
         /\ ~ \E e \in mine : /\ e.event \in {"OPENED", "CLOSED"} /\ same(e, t[1])
                              /\ t[1].at < e.at /\ e.at < t[2].at}

MedianHolding(w) == Median([t \in RoundTrips(w) |-> t[2].at - t[1].at])

\* The wallets that get a score at all, and those with a holding period.
Scored == {w \in TrackedWallets : OpensOf(w) # {}}
Traders == {w \in Scored : RoundTrips(w) # {}}

\* How far below the population's median the wallet's own is; no round trip, no
\* evidence.
HoldingPeriodComponent(w) ==
  IF w \notin Traders THEN 0
  ELSE LET population == Median([v \in Traders |-> MedianHolding(v)])
       IN  IF population <= 0 THEN 0 ELSE Percent(100 - (100 * MedianHolding(w)) \div population)

MarketsOpened(w) == {e.market : e \in OpensOf(w)}

BothSidesRatio(w) ==
  LET sides(mk) == {e.side : e \in {o \in OpensOf(w) : o.market = mk}}
  IN  (100 * Cardinality({mk \in MarketsOpened(w) : Cardinality(sides(mk)) >= 2}))
        \div Cardinality(MarketsOpened(w))

\* Many markets and small positions in them.
BreadthDepthComponent(w) ==
  LET breadth == Percent((100 * Cardinality(MarketsOpened(w))) \div BreadthReference)
      depth == SumFunction([e \in OpensOf(w) |-> e.usd]) \div Cardinality(OpensOf(w))
  IN  (breadth * Percent(100 - (100 * depth) \div DepthReference)) \div 100

\* Any one strong sign is enough.
MarketMakerScore(w) ==
  Percent(100 - ((100 - BothSidesRatio(w)) * (100 - HoldingPeriodComponent(w))
                   * (100 - BreadthDepthComponent(w))) \div 10000)

ConsensusWeightMultiplier(score) ==
  CASE score < MakerThreshold -> 100
    [] score >= MakerThreshold /\ MakerMode = "exclude" -> 0
    [] OTHER -> Percent(100 - score)

\* wallet_market_maker_scores, as the consensus reads its latest rows: a wallet
\* that was never scored keeps its weight.
Multipliers == [w \in Scored |-> ConsensusWeightMultiplier(MarketMakerScore(w))]

Multiplier(w) == IF w \in DOMAIN Multipliers THEN Multipliers[w] ELSE 100
=============================================================================
