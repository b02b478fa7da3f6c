--------------------------- MODULE CategoryScoring ---------------------------
(***************************************************************************)
(* How much a wallet's opinion weighs in a category                        *)
(* (app/optimization/scoring_category.py): the Wilson lower bound of its   *)
(* decayed win rate, shrunk toward the category's own.                     *)
(*                                                                         *)
(* Ages are whole half-lives.  A weight of one is Unit units, so that one  *)
(* half-life halves it exactly; rates and scores are whole percents.       *)
(***************************************************************************)
EXTENDS ClvEvidence, WalletRecords

CONSTANTS
  PriorStrength,    \* ranking_prior_strength
  ZombieGrace,      \* ranking_zombie_grace_days
  Unit              \* bound: resolution of a decayed weight, a power of two

\* A closed position won or lost; one still open long after its market ended is a
\* loss of the day the grace ran out; any other open one is no evidence yet.
Counted(p) == p.wallet \in TrackedWallets /\ (p.open => p.age > ZombieGrace)
Won(p) == ~p.open /\ p.pnl > 0
AgeOf(p) == IF p.open THEN p.age - ZombieGrace ELSE p.age

ASSUME ScoringConstants ==
  /\ PriorStrength \in Nat /\ ZombieGrace \in Nat /\ Unit \in Nat \ {0}
  /\ \A i \in DOMAIN Held : Counted(Held[i]) => AgeOf(Held[i]) \in Nat /\ 2^AgeOf(Held[i]) <= Unit

TradeRecords(category) == SelectSeq(Held, LAMBDA p : Counted(p) /\ p.category = category)

DecayedTally(records, w) ==
  LET weight == [i \in {j \in DOMAIN records : records[j].wallet = w} |->
                   Unit \div 2^AgeOf(records[i])]
  IN  [wins |-> MapThenSumSet(LAMBDA i : weight[i], {i \in DOMAIN weight : Won(records[i])}),
       n |-> Total(weight)]

\* The mean of the wallets' own rates, not the rate of their pooled trades.
PopulationMean(records) ==
  LET tally == [w \in {p.wallet : p \in Range(records)} |-> DecayedTally(records, w)]
      present == {w \in DOMAIN tally : tally[w].n > 0}
  IN  MapThenSumSet(LAMBDA w : (100 * tally[w].wins) \div tally[w].n, present)
        \div Cardinality(present)

\* Shrink first, bound second.
ComputeCategoryScore(tally, mean) ==
  WilsonLowPercentIn(Unit, tally.wins + (PriorStrength * Unit * mean) \div 100,
                     tally.n + PriorStrength * Unit)

\* trader_category_scores, a category's latest rows: every tracked wallet has one in
\* each category anyone traded in, a wallet that never did included.
RunCategoryScoring(category) ==
  LET records == TradeRecords(category)
  IN  IF \A w \in TrackedWallets : DecayedTally(records, w).n = 0 THEN << >>
      ELSE [w \in TrackedWallets |->
              ComputeCategoryScore(DecayedTally(records, w), PopulationMean(records))]

LatestCategoryScores == [k \in {p.category : p \in Range(Held)} |-> RunCategoryScoring(k)]

\* A wallet without a row in the category has earned nothing there.
CategoryScore(w, category) ==
  IF category \in DOMAIN LatestCategoryScores /\ w \in DOMAIN LatestCategoryScores[category]
    THEN LatestCategoryScores[category][w] ELSE 0
=============================================================================
