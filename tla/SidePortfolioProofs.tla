-------------------------- MODULE SidePortfolioProofs --------------------------
(***************************************************************************)
(* Proofs about the two side portfolios, which keep their money apart from *)
(* the paper engine's: the coherence scanner's (CoherencePortfolio) and    *)
(* that of the consensus probability (ConsensusV2).                        *)
(*                                                                         *)
(* The ledger of the coherence portfolio is not inductive by itself.  That *)
(* it is never overdrawn when fills leave needs what a fill may pay back   *)
(* not to be negative; that it is right when several captures are written  *)
(* at once needs the priced captures a scan carries from one transaction   *)
(* to the next to be fills of the outcome sets at some books; and that a   *)
(* hedge pays needs, of every capture ever written, that all its legs have *)
(* one size and cost less than one winning share of it pays (FillsOK).     *)
(*                                                                         *)
(* The ledger of consensus_prob needs that an open trade has paid nothing  *)
(* and that no exit costs more than it pays; the Brier score needs that    *)
(* every trade has a signal of its own (LinksOK).  That no cluster         *)
(* dominates is a fact about CapClusterWeights for any weights at all.     *)
(***************************************************************************)
EXTENDS CoherencePortfolio, ConsensusV2, PricingProofs

-----------------------------------------------------------------------------
(***************************************************************************)
(* The coherence portfolio: its inductive invariant.                       *)
(***************************************************************************)
\* A row of coherence_fills, open or redeemed.

FillType == [leg : Legs, size : Nat \ {0}, cost : Int, fee : Int, exit : {Unsettled, 0, 100}]

\* What the fills of one capture of the set k are, at any time.
FillsOK(k, fills) ==
  /\ fills \in [DOMAIN LegsOf[k] -> FillType]
  /\ \A i \in DOMAIN fills : fills[i].leg = LegsOf[k][i] /\ fills[i].size = fills[1].size
  /\ 10000 * fills[1].size > TotalCost(fills)
  /\ Complementary(k) =>
       /\ (fills[1].exit = Unsettled) <=> (fills[2].exit = Unsettled)
       /\ fills[1].exit # Unsettled => fills[1].exit + fills[2].exit = 100

\* The rows of one capture, under the key of its outcome set.
CaptureType ==
  {c \in [key : Sets, fills : UNION {[DOMAIN LegsOf[k] -> FillType] : k \in Sets}] :
     FillsOK(c.key, c.fills)}

\* What a scan has priced are captures that its sets may have.
PricedOK(priced) ==
  DOMAIN priced \subseteq Sets /\ \A k \in DOMAIN priced : priced[k] \in Captures[k]

\* What a scan has found and priced is of the outcome sets.
ScanOK(s) ==
  s # NoTxn =>
    /\ s.stage \in {"store", "price"} => s.promising \subseteq Sets
    /\ s.stage = "capture" => PricedOK(s.priced)

\* What the collectors have stored of the markets.
FeedOK ==
  closed \in [Markets -> BOOLEAN] /\ quoted \in [Markets -> {NoPrice} \cup (0..100)]

\* What the captures have cost.
Spent(rows) == SumFunction([c \in DOMAIN rows |-> TotalCost(rows[c].fills)])

\* The inductive invariant.
CoherenceIInv ==
  /\ FeedOK
  /\ captures \in Seq(CaptureType)
  /\ coherenceCash \in Nat
  /\ coherenceCash = CoherenceStart - Spent(captures) + AllProceeds(captures)
  /\ ScanOK(scan)

-----------------------------------------------------------------------------
\* A book is a sequence of levels.
LEMMA BookType == Books \subseteq Seq(Levels)
BY CoherenceConstants DEF Levels

\* The legs of a set are a sequence that is not empty.
LEMMA LegsType ==
  ASSUME NEW k \in Sets
  PROVE  /\ Len(LegsOf[k]) \in Nat \ {0} /\ DOMAIN LegsOf[k] = 1..Len(LegsOf[k])
         /\ \A i \in DOMAIN LegsOf[k] : LegsOf[k][i] \in Legs
<1>1. LegsOf[k] \in Seq(Legs) /\ LegsOf[k] # <<>>
  BY CoherenceConstants
<1>. QED
  BY <1>1, SequenceType

\* The money in front of a level is a number.
LEMMA DepthType ==
  ASSUME NEW book \in Seq(Levels), NEW i \in 1..(Len(book) + 1)
  PROVE  DepthBefore(book, i) \in Nat
<1> DEFINE f == [j \in 1..(i - 1) |-> LevelValue(book, j)]
<1>1. Len(book) \in Nat /\ i - 1 \in Int /\ 1 \in Int
  BY SequenceType
<1>2. IsFiniteSet(1..(i - 1))
  BY <1>1, FirstNumbers
<1>3. \A j \in 1..(i - 1) : LevelValue(book, j) \in Nat
  <2>1. 1..(i - 1) \subseteq 1..Len(book)
    BY <1>1
  <2>. QED
    BY <2>1, LevelValueType
<1>4. DOMAIN f = 1..(i - 1) /\ \A j \in 1..(i - 1) : f[j] \in Nat
  BY <1>3
<1>5. DepthBefore(book, i) = SumFunction(f)
  BY DEF DepthBefore
<1>. HIDE DEF f
<1>6. IsSummable(f) /\ \A j \in DOMAIN f : f[j] >= 0
  BY <1>2, <1>4 DEF IsSummable
<1>. QED
  BY <1>5, <1>6, TotalNat

\* The shares the depth cap lets a leg supply are a number.
LEMMA MaxSharesType ==
  ASSUME NEW book \in Seq(Levels)
  PROVE  MaxShares(book) \in Int
<1> DEFINE n == Len(book)
           budget == Pct(DepthPct, DepthBefore(book, n + 1))
           f == [i \in DOMAIN book |-> TakenAt(book, budget, i) \div (100 * book[i].price)]
<1>1. n \in Nat /\ DOMAIN book = 1..n /\ n + 1 \in 1..(n + 1) /\ 1 \in Int /\ n \in Int
  BY SequenceType
<1>2. IsFiniteSet(1..n)
  BY <1>1, FirstNumbers
<1>3. budget \in Nat
  <2>1. DepthBefore(book, n + 1) \in Nat
    BY <1>1, DepthType
  <2>2. DepthPct \in Nat
    BY CoherenceConstants
  <2>. QED
    BY <2>1, <2>2, PctNat
<1>. HIDE DEF budget
<1>4. ASSUME NEW i \in 1..n
      PROVE  TakenAt(book, budget, i) \div (100 * book[i].price) \in Int
  <2>1. book[i].price \in 1..99 /\ LevelValue(book, i) \in Nat
    BY LevelType, LevelValueType
  <2>2. i \in 1..(n + 1)
    BY <1>1
  <2>3. DepthBefore(book, i) \in Nat
    BY <2>2, DepthType
  <2>4. TakenAt(book, budget, i) \in Int
    BY <1>3, <2>1, <2>3 DEF TakenAt, Smaller, Larger
  <2>5. \A a \in Int, p \in 1..99 : a \div (100 * p) \in Int
    OBVIOUS
  <2>. QED
    BY <2>1, <2>4, <2>5
<1>5. DOMAIN f = 1..n /\ \A i \in 1..n : f[i] \in Int
  BY <1>1, <1>4
<1>6. MaxShares(book) = SumFunction(f)
  BY DEF MaxShares, budget
<1>. HIDE DEF f, n
<1>7. IsSummable(f)
  BY <1>2, <1>5 DEF IsSummable
<1>. QED
  BY <1>6, <1>7, TotalInt

\* What shares of a leg cost is a number.
LEMMA WalkForSharesType ==
  ASSUME NEW book \in Seq(Levels), NEW shares \in Int
  PROVE  WalkBookForShares(book, shares) \in Int
<1> DEFINE n == Len(book)
           before(i) == SumFunction([j \in 1..(i - 1) |-> book[j].size])
           f == [i \in DOMAIN book |->
                   100 * book[i].price * Smaller(book[i].size, Larger(0, shares - before(i)))]
<1>1. n \in Nat /\ DOMAIN book = 1..n /\ 1 \in Int /\ n \in Int
  BY SequenceType
<1>2. IsFiniteSet(1..n)
  BY <1>1, FirstNumbers
<1>3. ASSUME NEW i \in 1..n PROVE before(i) \in Int
  <2> DEFINE g == [j \in 1..(i - 1) |-> book[j].size]
  <2>1. IsFiniteSet(1..(i - 1))
    <3>1. i - 1 \in Int
      BY <1>1
    <3>. QED
      BY <1>1, <3>1, FirstNumbers
  <2>2. \A j \in 1..(i - 1) : book[j].size \in Int
    <3>1. 1..(i - 1) \subseteq 1..Len(book)
      BY <1>1
    <3>. QED
      BY <3>1, LevelType
  <2>3. DOMAIN g = 1..(i - 1) /\ \A j \in DOMAIN g : g[j] \in Int
    BY <2>2
  <2>. HIDE DEF g
  <2>4. IsSummable(g)
    BY <2>1, <2>3 DEF IsSummable
  <2>5. SumFunction(g) \in Int
    BY <2>4, TotalInt
  <2>. QED
    BY <2>5 DEF g
<1>. HIDE DEF before
<1>4. ASSUME NEW i \in 1..n
      PROVE  100 * book[i].price * Smaller(book[i].size, Larger(0, shares - before(i))) \in Int
  <2>1. book[i].price \in 1..99 /\ book[i].size \in Nat \ {0}
    BY LevelType
  <2>2. Smaller(book[i].size, Larger(0, shares - before(i))) \in Int
    BY <1>3, <2>1 DEF Smaller, Larger
  <2>3. \A p \in 1..99, x \in Int : 100 * p * x \in Int
    OBVIOUS
  <2>. QED
    BY <2>1, <2>2, <2>3
<1>5. DOMAIN f = 1..n /\ \A i \in 1..n : f[i] \in Int
  BY <1>1, <1>4
<1>6. WalkBookForShares(book, shares) = SumFunction(f)
  BY DEF WalkBookForShares, before
<1>. HIDE DEF f, n
<1>7. IsSummable(f)
  BY <1>2, <1>5 DEF IsSummable
<1>. QED
  BY <1>6, <1>7, TotalInt

\* A set of integers that is finite and not empty has a least member.
LEMMA CommonSizeType ==
  ASSUME NEW k \in Sets, NEW quotes \in Quotes(k),
         \A i \in DOMAIN quotes : MaxShares(quotes[i]) > 0
  PROVE  \A i : CommonFillableSize(quotes, i) \in Nat \ {0}
<1> DEFINE S == {MaxShares(quotes[j]) : j \in DOMAIN quotes}
<1>1. DOMAIN quotes = DOMAIN LegsOf[k] /\ \A j \in DOMAIN quotes : quotes[j] \in Seq(Levels)
  BY BookType DEF Quotes
<1>2. S \in SUBSET Nat /\ 0 \notin S
  <2>1. \A j \in DOMAIN quotes : MaxShares(quotes[j]) \in Int
    BY <1>1, MaxSharesType
  <2>. QED
    BY <2>1
<1>3. S # {}
  <2>1. 1 \in DOMAIN quotes
    BY <1>1, LegsType
  <2>. QED
    BY <2>1
<1>4. \A i : CommonFillableSize(quotes, i) = Min(S)
  BY DEF CommonFillableSize
<1>. HIDE DEF S
<1>5. Least(S) \in S /\ \A y \in S : Least(S) <= y
  BY <1>2, <1>3, LeastOfNaturals
<1>6. Min(S) \in S
  BY <1>5 DEF Min
<1>. QED
  BY <1>2, <1>4, <1>6

\* The fills of a set that pays are typed, unsettled and worth more than they cost.
LEMMA FillsType ==
  ASSUME NEW k \in Sets, NEW quotes \in Quotes(k), Pays(k, quotes)
  PROVE  FillsOK(k, Fills(k, quotes))
<1> DEFINE fills == Fills(k, quotes)
           size == CommonFillableSize(quotes, 1)
           cost(i) == WalkBookForShares(quotes[i], size)
           fee(i) == TakerFee(cost(i) \div (100 * size), size, LegFeeRate)
<1>1. /\ DOMAIN quotes = DOMAIN LegsOf[k] /\ \A j \in DOMAIN quotes : quotes[j] \in Seq(Levels)
      /\ 1 \in DOMAIN quotes
  BY BookType, LegsType DEF Quotes
<1>2. size \in Nat \ {0} /\ \A i : CommonFillableSize(quotes, i) = size
  BY CommonSizeType DEF Pays, CommonFillableSize
<1>. HIDE DEF size
<1>3. ASSUME NEW i \in DOMAIN quotes
      PROVE  cost(i) \in Int /\ fee(i) \in Int
  <2>1. cost(i) \in Int
    BY <1>1, <1>2, WalkForSharesType
  <2>. HIDE DEF cost
  <2>2. \A a \in Int, b \in Nat \ {0} : a \div (100 * b) \in Int
    OBVIOUS
  <2>3. cost(i) \div (100 * size) \in Int /\ size \in Int /\ LegFeeRate \in Int
    BY <1>2, <2>1, <2>2, CoherenceConstants
  <2>4. fee(i) \in Int
    BY <2>3, TakerFeeType
  <2>. QED
    BY <2>1, <2>4
<1>4. /\ DOMAIN fills = DOMAIN quotes
      /\ fills = [i \in DOMAIN quotes |->
           [leg |-> LegsOf[k][i], size |-> size, cost |-> cost(i), fee |-> fee(i),
            exit |-> Unsettled]]
  BY <1>2 DEF Fills, FillRow
<1>. HIDE DEF cost, fee
<1>5. ASSUME NEW i \in DOMAIN quotes
      PROVE  fills[i] \in FillType /\ fills[i].leg = LegsOf[k][i] /\ fills[i].size = size
             /\ fills[i].exit = Unsettled
  <2>1. LegsOf[k][i] \in Legs
    BY <1>1, LegsType
  <2>. QED
    BY <1>2, <1>3, <1>4, <2>1 DEF FillType
<1>6. fills \in [DOMAIN LegsOf[k] -> FillType]
  BY <1>1, <1>4, <1>5
<1>7. 10000 * fills[1].size > TotalCost(fills)
  BY DEF Pays
<1>8. Complementary(k) => fills[1].exit = Unsettled /\ fills[2].exit = Unsettled
  <2>1. Complementary(k) => 2 \in DOMAIN quotes
    BY <1>1, LegsType DEF Complementary
  <2>. QED
    BY <1>1, <1>5, <2>1
<1>. HIDE DEF fills
<1>. QED
  BY <1>1, <1>4, <1>5, <1>6, <1>7, <1>8 DEF FillsOK, fills

\* What is priced for capture is fills of that kind.
LEMMA CapturesType ==
  ASSUME NEW k \in Sets, NEW fills \in Captures[k] PROVE FillsOK(k, fills)
<1>1. PICK q \in Quotes(k) : Pays(k, q) /\ fills = Fills(k, q)
  BY DEF Captures
<1>. QED
  BY <1>1, FillsType

\* The legs of a set are finitely many.
LEMMA FillsFinite ==
  ASSUME NEW k \in Sets, NEW fills, FillsOK(k, fills)
  PROVE  /\ IsFiniteSet(DOMAIN fills)
         /\ \A i \in DOMAIN fills : /\ fills[i] \in FillType
                                    /\ fills[i].size \in Nat \ {0} /\ fills[i].cost \in Int
                                    /\ fills[i].fee \in Int /\ fills[i].exit \in {Unsettled, 0, 100}
<1>1. DOMAIN fills = 1..Len(LegsOf[k]) /\ Len(LegsOf[k]) \in Int /\ 1 \in Int
  BY LegsType DEF FillsOK
<1>2. IsFiniteSet(1..Len(LegsOf[k]))
  BY <1>1, FirstNumbers
<1>. QED
  BY <1>1, <1>2 DEF FillsOK, FillType

\* What they cost is a number.
LEMMA TotalCostType ==
  ASSUME NEW k \in Sets, NEW fills, FillsOK(k, fills) PROVE TotalCost(fills) \in Int
<1> DEFINE f == [i \in DOMAIN fills |-> fills[i].cost + fills[i].fee]
<1>1. IsFiniteSet(DOMAIN f) /\ \A i \in DOMAIN f : f[i] \in Int
  BY FillsFinite
<1>. HIDE DEF f
<1>2. SumFunction(f) \in Int
  BY <1>1, TotalInt DEF IsSummable
<1>. QED
  BY <1>2 DEF TotalCost, f

\* What they have paid back is a number.
LEMMA ProceedsType ==
  ASSUME NEW k \in Sets, NEW fills, FillsOK(k, fills)
  PROVE  Proceeds(fills) \in Int
<1> DEFINE part(i) == IF fills[i].exit = Unsettled THEN 0 ELSE 100 * fills[i].size * fills[i].exit
           f == [i \in DOMAIN fills |-> part(i)]
<1>1. \A i \in DOMAIN fills : part(i) \in Int
  <2>1. \A s \in Nat, e \in {Unsettled, 0, 100} : 100 * s * e \in Int
    BY DEF Unsettled
  <2>. QED
    BY <2>1, FillsFinite
<1>. HIDE DEF part
<1>2. IsFiniteSet(DOMAIN f) /\ \A i \in DOMAIN f : f[i] \in Int
  BY <1>1, FillsFinite
<1>. HIDE DEF f
<1>3. SumFunction(f) \in Int
  BY <1>2, TotalInt DEF IsSummable
<1>. QED
  BY <1>3 DEF Proceeds, f, part

-----------------------------------------------------------------------------
(***************************************************************************)
(* Settlement.                                                             *)
(***************************************************************************)

\* The two sides of a market settle together, and one of them wins.
LEMMA SidesMirror ==
  ASSUME FeedOK, NEW a \in Legs, NEW b \in Legs, a.market = b.market,
         {a.side, b.side} = {"yes", "no"}
  PROVE  /\ IsSettled(a) <=> IsSettled(b)
         /\ IsSettled(a) => Redeemed(a) + Redeemed(b) = 100
<1> DEFINE q == quoted[a.market]
<1>1. a.market \in Markets /\ closed[a.market] \in BOOLEAN /\ q \in {NoPrice} \cup (0..100)
  BY DEF FeedOK, Legs
<1>2. NoPrice \notin 0..100 /\ Threshold \in 0..49
  BY FeedConstants, SettlementConstants
<1>3. ASSUME NEW y \in Legs, NEW n \in Legs, y.market = a.market, n.market = a.market,
             y.side = "yes", n.side = "no"
      PROVE  /\ IsSettled(y) <=> IsSettled(n)
             /\ IsSettled(y) => Redeemed(y) + Redeemed(n) = 100
  <2>1. CASE q = NoPrice
    <3>1. TokenPrice(y) = NoPrice /\ TokenPrice(n) = NoPrice
      BY <1>3, <2>1 DEF TokenPrice
    <3>2. Outcome(y) \in {"NOT_RESOLVED", "AMBIGUOUS"} /\ Outcome(n) \in {"NOT_RESOLVED", "AMBIGUOUS"}
      BY <1>1, <1>3, <3>1 DEF Outcome, DetectResolution
    <3>. QED
      BY <3>2 DEF IsSettled
  <2>2. CASE q # NoPrice
    <3>1. q \in 0..100 /\ 100 - q \in 0..100
      BY <1>1, <2>2
    <3>2. TokenPrice(y) = q /\ TokenPrice(n) = 100 - q
      BY <1>3, <2>2 DEF TokenPrice
    <3>. HIDE DEF q
    <3>3. q # NoPrice /\ 100 - q # NoPrice
      BY <1>2, <3>1
    <3>4. /\ Outcome(y) = IF ~closed[a.market] THEN "NOT_RESOLVED"
                          ELSE IF q >= 100 - Threshold THEN "WON"
                          ELSE IF q <= Threshold THEN "LOST" ELSE "AMBIGUOUS"
          /\ Outcome(n) = IF ~closed[a.market] THEN "NOT_RESOLVED"
                          ELSE IF 100 - q >= 100 - Threshold THEN "WON"
                          ELSE IF 100 - q <= Threshold THEN "LOST" ELSE "AMBIGUOUS"
      <4>1. \A x \in 0..100, c \in BOOLEAN : x # NoPrice =>
              DetectResolution(c, x, Threshold)
                = IF ~c THEN "NOT_RESOLVED"
                  ELSE IF x >= 100 - Threshold THEN "WON"
                  ELSE IF x <= Threshold THEN "LOST" ELSE "AMBIGUOUS"
        BY <1>2 DEF DetectResolution
      <4>. QED
        BY <1>1, <1>3, <3>1, <3>2, <3>3, <4>1 DEF Outcome
    <3>5. CASE ~closed[a.market]
      BY <3>4, <3>5 DEF IsSettled
    <3>6. CASE closed[a.market] /\ q >= 100 - Threshold
      <4>1. Outcome(y) = "WON" /\ Outcome(n) = "LOST"
        BY <1>2, <3>1, <3>4, <3>6
      <4>. QED
        BY <4>1 DEF IsSettled, Redeemed
    <3>7. CASE closed[a.market] /\ q <= Threshold
      <4>1. Outcome(y) = "LOST" /\ Outcome(n) = "WON"
        BY <1>2, <3>1, <3>4, <3>7
      <4>. QED
        BY <4>1 DEF IsSettled, Redeemed
    <3>8. CASE closed[a.market] /\ q < 100 - Threshold /\ q > Threshold
      <4>1. Outcome(y) = "AMBIGUOUS" /\ Outcome(n) = "AMBIGUOUS"
        BY <1>2, <3>1, <3>4, <3>8
      <4>. QED
        BY <4>1 DEF IsSettled
    <3>. QED
      BY <1>1, <1>2, <3>1, <3>5, <3>6, <3>7, <3>8
  <2>. QED
    BY <2>1, <2>2
<1>4. CASE a.side = "yes" /\ b.side = "no"
  BY <1>3, <1>4
<1>5. CASE a.side = "no" /\ b.side = "yes"
  <2>1. (IsSettled(b) <=> IsSettled(a)) /\ (IsSettled(b) => Redeemed(b) + Redeemed(a) = 100)
    BY <1>3, <1>5
  <2>2. Redeemed(a) \in Int /\ Redeemed(b) \in Int
    BY DEF Redeemed
  <2>. QED
    BY <2>1, <2>2
<1>6. (a.side = "yes" /\ b.side = "no") \/ (a.side = "no" /\ b.side = "yes")
  <2>1. "yes" # "no"
    OBVIOUS
  <2>. QED
    BY <2>1
<1>. QED
  BY <1>4, <1>5, <1>6

\* The legs of a complementary set are the two sides of a market.
LEMMA ComplementaryLegs ==
  ASSUME NEW k \in Sets, Complementary(k)
  PROVE  /\ {1, 2} \subseteq DOMAIN LegsOf[k]
         /\ LegsOf[k][1] \in Legs /\ LegsOf[k][2] \in Legs
         /\ LegsOf[k][1].market = LegsOf[k][2].market
         /\ {LegsOf[k][1].side, LegsOf[k][2].side} = {"yes", "no"}
<1>1. {1, 2} \subseteq DOMAIN LegsOf[k]
  BY LegsType DEF Complementary
<1>. QED
  BY <1>1, LegsType DEF Complementary

\* A fill leaves with a payout, or stays as it is.
LEMMA LeftType ==
  ASSUME NEW fill \in FillType
  PROVE  LET left == Left(fill)
         IN  /\ left \in FillType
             /\ left.leg = fill.leg /\ left.size = fill.size /\ left.cost = fill.cost
             /\ left.fee = fill.fee
             /\ fill.exit # Unsettled => left.exit = fill.exit
             /\ fill.exit = Unsettled =>
                  left.exit = IF IsSettled(fill.leg) THEN Redeemed(fill.leg) ELSE Unsettled
<1>1. Redeemed(fill.leg) \in {Unsettled, 0, 100}
  BY DEF Redeemed
<1>. QED
  BY <1>1 DEF Left, FillType

\* Settlement keeps what fills are and cost; they pay back more, never less.
LEMMA LeftKeepsFills ==
  ASSUME FeedOK, NEW k \in Sets, NEW fills, FillsOK(k, fills)
  PROVE  LET after == [i \in DOMAIN fills |-> Left(fills[i])]
         IN  FillsOK(k, after) /\ TotalCost(after) = TotalCost(fills)
             /\ Proceeds(fills) <= Proceeds(after)
<1> DEFINE after == [i \in DOMAIN fills |-> Left(fills[i])]
           D == DOMAIN fills
<1>1. D = DOMAIN LegsOf[k] /\ DOMAIN after = D /\ 1 \in D
  BY LegsType DEF FillsOK
<1>2. IsFiniteSet(D) /\ \A i \in D : fills[i] \in FillType
  BY FillsFinite
<1>3. ASSUME NEW i \in D
      PROVE  /\ after[i] \in FillType
             /\ after[i].leg = fills[i].leg /\ after[i].size = fills[i].size
             /\ after[i].cost = fills[i].cost /\ after[i].fee = fills[i].fee
             /\ fills[i].exit # Unsettled => after[i].exit = fills[i].exit
             /\ fills[i].exit = Unsettled =>
                  after[i].exit = IF IsSettled(fills[i].leg) THEN Redeemed(fills[i].leg)
                                  ELSE Unsettled
  <2>1. after[i] = Left(fills[i])
    OBVIOUS
  <2>. HIDE DEF after
  <2>. QED
    BY <1>2, <2>1, LeftType
<1>4. after \in [DOMAIN LegsOf[k] -> FillType]
  BY <1>1, <1>3
<1>5. TotalCost(after) = TotalCost(fills)
  <2>1. [i \in DOMAIN after |-> after[i].cost + after[i].fee]
          = [i \in DOMAIN fills |-> fills[i].cost + fills[i].fee]
    <3>. HIDE DEF after
    <3>. QED
      BY <1>1, <1>3
  <2>. HIDE DEF after
  <2>. QED
    BY <2>1 DEF TotalCost
<1>6. Proceeds(fills) <= Proceeds(after)
  <2> DEFINE part(x) == IF x.exit = Unsettled THEN 0 ELSE 100 * x.size * x.exit
             f == [i \in DOMAIN fills |-> part(fills[i])]
             g == [i \in DOMAIN after |-> part(after[i])]
  <2>. HIDE DEF after
  <2>1. \A x \in FillType : part(x) \in Nat
    <3>1. \A s \in Nat, e \in {0, 100} : 100 * s * e \in Nat
      OBVIOUS
    <3>. QED
      BY <3>1 DEF FillType
  <2>2. \A i \in D : part(fills[i]) \in Nat /\ part(after[i]) \in Nat
    BY <1>2, <1>3, <2>1
  <2>3. ASSUME NEW i \in D PROVE part(fills[i]) <= part(after[i])
    <3>1. CASE fills[i].exit = Unsettled
      BY <2>2, <3>1
    <3>2. CASE fills[i].exit # Unsettled
      BY <1>3, <2>2, <3>2
    <3>. QED
      BY <3>1, <3>2
  <2>4. Proceeds(fills) = SumFunction(f) /\ Proceeds(after) = SumFunction(g)
    BY DEF Proceeds
  <2>. HIDE DEF part
  <2>5. /\ DOMAIN f = D /\ DOMAIN g = D
        /\ \A i \in D : f[i] \in Int /\ g[i] \in Int /\ f[i] <= g[i]
    BY <1>1, <2>2, <2>3
  <2>. HIDE DEF f, g
  <2>6. SumFunction(f) <= SumFunction(g)
    BY <1>2, <2>5, TotalMonotone DEF IsSummable
  <2>. QED
    BY <2>4, <2>6
<1>7. Complementary(k) =>
        /\ (after[1].exit = Unsettled) <=> (after[2].exit = Unsettled)
        /\ after[1].exit # Unsettled => after[1].exit + after[2].exit = 100
  <2> SUFFICES ASSUME Complementary(k)
               PROVE  /\ (after[1].exit = Unsettled) <=> (after[2].exit = Unsettled)
                      /\ after[1].exit # Unsettled => after[1].exit + after[2].exit = 100
    OBVIOUS
  <2>. HIDE DEF after
  <2>1. 1 \in D /\ 2 \in D /\ fills[1].leg = LegsOf[k][1] /\ fills[2].leg = LegsOf[k][2]
    BY <1>1, ComplementaryLegs DEF FillsOK
  <2>2. /\ IsSettled(fills[1].leg) <=> IsSettled(fills[2].leg)
        /\ IsSettled(fills[1].leg) => Redeemed(fills[1].leg) + Redeemed(fills[2].leg) = 100
    BY <2>1, ComplementaryLegs, SidesMirror
  <2>3. CASE fills[1].exit = Unsettled
    <3>1. fills[2].exit = Unsettled
      BY <2>3 DEF FillsOK
    <3>2. \A l : Redeemed(l) # Unsettled
      BY DEF Redeemed, Unsettled
    <3>3. /\ after[1].exit = IF IsSettled(fills[1].leg) THEN Redeemed(fills[1].leg) ELSE Unsettled
          /\ after[2].exit = IF IsSettled(fills[2].leg) THEN Redeemed(fills[2].leg) ELSE Unsettled
      BY <1>3, <2>1, <2>3, <3>1
    <3>. QED
      BY <2>2, <3>2, <3>3
  <2>4. CASE fills[1].exit # Unsettled
    <3>1. fills[2].exit # Unsettled /\ fills[1].exit + fills[2].exit = 100
      BY <2>4 DEF FillsOK
    <3>2. after[1].exit = fills[1].exit /\ after[2].exit = fills[2].exit
      BY <1>3, <2>1, <2>4, <3>1
    <3>. QED
      BY <2>4, <3>1, <3>2
  <2>. QED
    BY <2>3, <2>4
<1>8. 10000 * after[1].size > TotalCost(after)
  <2>. HIDE DEF after
  <2>1. after[1].size = fills[1].size
    BY <1>1, <1>3
  <2>2. 10000 * fills[1].size > TotalCost(fills)
    BY DEF FillsOK
  <2>. QED
    BY <1>5, <2>1, <2>2
<1>9. \A i \in D : after[i].leg = LegsOf[k][i] /\ after[i].size = after[1].size
  <2>. HIDE DEF after
  <2>. QED
    BY <1>1, <1>3 DEF FillsOK
<1>. HIDE DEF after
<1>10. FillsOK(k, after)
  BY <1>1, <1>4, <1>7, <1>8, <1>9 DEF FillsOK
<1>. QED
  BY <1>5, <1>6, <1>10 DEF after

-----------------------------------------------------------------------------
(***************************************************************************)
(* The ledger.                                                             *)
(***************************************************************************)

\* What is priced has paid back nothing yet.
LEMMA NothingPaidYet ==
  ASSUME NEW k \in Sets, NEW fills \in Captures[k] PROVE Proceeds(fills) = 0
<1>1. PICK q \in Quotes(k) : Pays(k, q) /\ fills = Fills(k, q)
  BY DEF Captures
<1>2. \A i \in DOMAIN fills : fills[i].exit = Unsettled
  BY <1>1 DEF Fills, FillRow
<1> DEFINE f == [i \in DOMAIN fills |->
                   IF fills[i].exit = Unsettled THEN 0 ELSE 100 * fills[i].size * fills[i].exit]
<1>3. IsFiniteSet(DOMAIN f) /\ \A i \in DOMAIN f : f[i] = 0
  BY <1>2, CapturesType, FillsFinite
<1>. HIDE DEF f
<1>4. SumFunction(f) = 0
  BY <1>3, TotalZero
<1>. QED
  BY <1>4 DEF Proceeds, f

\* The selection that is bought costs no more than the bankroll: the last set of it
\* was compared with what all the others had left.
LEMMA AffordedSpends ==
  ASSUME coherenceCash \in Nat, NEW priced, PricedOK(priced), NEW taken \in Afforded(priced)
  PROVE  LET cost == [i \in DOMAIN taken |-> TotalCost(priced[taken[i]])]
         IN  /\ taken \in Seq(DOMAIN priced)
             /\ \A i \in DOMAIN taken : cost[i] \in Int
             /\ SumFunction(cost) \in Int /\ SumFunction(cost) <= coherenceCash
<1> DEFINE cost == [i \in DOMAIN taken |-> TotalCost(priced[taken[i]])]
           n == Len(taken)
<1>1. taken \in Seq(DOMAIN priced)
  BY DEF Afforded, InOrder, BoundedSeq, SeqOf
<1>2. n \in Nat /\ DOMAIN taken = 1..n /\ \A i \in 1..n : taken[i] \in DOMAIN priced
  BY <1>1, SequenceType
<1>3. DOMAIN cost = 1..n /\ \A i \in 1..n : cost[i] \in Int
  <2>1. \A k \in DOMAIN priced : TotalCost(priced[k]) \in Int
    BY CapturesType, TotalCostType DEF PricedOK
  <2>. QED
    BY <1>2, <2>1
<1>4. IsFiniteSet(1..n)
  BY <1>2, FirstNumbers
<1>5. IsSummable(cost) /\ SumFunction(cost) \in Int
  <2>. HIDE DEF cost, n
  <2>1. IsSummable(cost)
    BY <1>3, <1>4 DEF IsSummable
  <2>. QED
    BY <2>1, TotalInt
<1>6. CASE n = 0
  <2>1. DOMAIN cost = {}
    BY <1>3, <1>6
  <2>2. SumFunction(cost) = 0
    BY <2>1, TotalEmpty
  <2>. HIDE DEF cost
  <2>. QED
    BY <1>1, <1>2, <1>3, <1>5, <2>2 DEF cost
<1>7. CASE n # 0
  <2> DEFINE k == taken[n]
             before == {i \in DOMAIN taken : Earlier(taken[i], k)}
             f == [j \in before |-> TotalCost(priced[taken[j]])]
  <2>1. n \in 1..n /\ k \in DOMAIN priced /\ k \in Range(taken)
    BY <1>2, <1>7 DEF Range
  <2>2. ~Earlier(k, k)
    <3>1. /\ DOMAIN SetOrder \subseteq Int
          /\ \A i, j \in DOMAIN SetOrder : SetOrder[i] = SetOrder[j] => i = j
      BY CoherenceConstants, SequenceType DEF IsInjective
    <3>. QED
      BY <3>1 DEF Earlier
  <2>3. before = 1..n \ {n}
    <3>1. \A i, j \in DOMAIN taken : i < j => Earlier(taken[i], taken[j])
      BY DEF Afforded, InOrder
    <3>. QED
      BY <1>2, <2>1, <2>2, <3>1
  <2>4. TotalCost(priced[k]) + SumFunction(f) <= coherenceCash
    BY <2>1 DEF Afforded
  <2>5. DOMAIN f = 1..n \ {n} /\ cost[n] = TotalCost(priced[k])
        /\ \A i \in 1..n \ {n} : f[i] = cost[i]
    BY <1>2, <2>1, <2>3
  <2>. HIDE DEF f, before, k, cost, n
  <2>6. IsOneMore(f, cost, n)
    BY <1>3, <1>5, <2>1, <2>5 DEF IsOneMore
  <2>7. SumFunction(f) \in Int /\ SumFunction(cost) = SumFunction(f) + cost[n]
    BY <2>6, TotalAdd
  <2>8. SumFunction(cost) <= coherenceCash
    BY <1>3, <2>1, <2>4, <2>5, <2>7
  <2>. QED
    BY <1>1, <1>2, <1>3, <1>5, <2>8 DEF cost
<1>. QED
  BY <1>6, <1>7

\* A capture's money is in numbers.
LEMMA CaptureMoney ==
  ASSUME NEW rows \in Seq(CaptureType)
  PROVE  /\ Len(rows) \in Nat /\ DOMAIN rows = 1..Len(rows) /\ IsFiniteSet(DOMAIN rows)
         /\ \A c \in DOMAIN rows :
              /\ rows[c] \in CaptureType /\ rows[c].key \in Sets
              /\ FillsOK(rows[c].key, rows[c].fills)
              /\ TotalCost(rows[c].fills) \in Int /\ Proceeds(rows[c].fills) \in Int
         /\ Spent(rows) \in Int /\ AllProceeds(rows) \in Int
<1> DEFINE n == Len(rows)
           f == [c \in DOMAIN rows |-> TotalCost(rows[c].fills)]
           g == [c \in DOMAIN rows |-> Proceeds(rows[c].fills)]
<1>1. n \in Nat /\ DOMAIN rows = 1..n /\ \A c \in 1..n : rows[c] \in CaptureType
  BY SequenceType
<1>2. IsFiniteSet(1..n)
  BY <1>1, FirstNumbers
<1>3. ASSUME NEW c \in DOMAIN rows
      PROVE  /\ rows[c] \in CaptureType /\ rows[c].key \in Sets
             /\ FillsOK(rows[c].key, rows[c].fills)
             /\ TotalCost(rows[c].fills) \in Int /\ Proceeds(rows[c].fills) \in Int
  <2>1. rows[c].key \in Sets /\ FillsOK(rows[c].key, rows[c].fills)
    BY <1>1 DEF CaptureType
  <2>. QED
    BY <1>1, <2>1, TotalCostType, ProceedsType
<1>4. DOMAIN f = 1..n /\ DOMAIN g = 1..n /\ \A c \in 1..n : f[c] \in Int /\ g[c] \in Int
  BY <1>1, <1>3
<1>5. Spent(rows) = SumFunction(f) /\ AllProceeds(rows) = SumFunction(g)
  BY DEF Spent, AllProceeds
<1>. HIDE DEF f, g, n
<1>6. SumFunction(f) \in Int /\ SumFunction(g) \in Int
  BY <1>2, <1>4, TotalInt DEF IsSummable
<1>. QED
  BY <1>1, <1>2, <1>3, <1>5, <1>6 DEF n

\* Settlement keeps the captures and what they cost; together they pay back more.
LEMMA LeftKeepsCaptures ==
  ASSUME FeedOK, NEW rows \in Seq(CaptureType)
  PROVE  LET after == [c \in DOMAIN rows |->
               [rows[c] EXCEPT !.fills = [i \in DOMAIN @ |-> Left(@[i])]]]
         IN  /\ after \in Seq(CaptureType)
             /\ Spent(after) = Spent(rows) /\ AllProceeds(rows) <= AllProceeds(after)
<1> DEFINE left(x) == [i \in DOMAIN x.fills |-> Left(x.fills[i])]
           after == [c \in DOMAIN rows |->
               [rows[c] EXCEPT !.fills = [i \in DOMAIN @ |-> Left(@[i])]]]
           n == Len(rows)
<1>1. /\ n \in Nat /\ DOMAIN rows = 1..n /\ IsFiniteSet(1..n)
      /\ \A c \in 1..n : rows[c] \in CaptureType /\ rows[c].key \in Sets
                         /\ FillsOK(rows[c].key, rows[c].fills)
                         /\ Proceeds(rows[c].fills) \in Int
  BY CaptureMoney
<1>2. ASSUME NEW c \in 1..n
      PROVE  /\ after[c] \in CaptureType /\ TotalCost(after[c].fills) = TotalCost(rows[c].fills)
             /\ Proceeds(rows[c].fills) <= Proceeds(after[c].fills)
             /\ Proceeds(after[c].fills) \in Int
  <2>1. /\ FillsOK(rows[c].key, left(rows[c])) /\ TotalCost(left(rows[c])) = TotalCost(rows[c].fills)
        /\ Proceeds(rows[c].fills) <= Proceeds(left(rows[c]))
    BY <1>1, LeftKeepsFills
  <2>2. Proceeds(left(rows[c])) \in Int
    BY <1>1, <2>1, ProceedsType
  <2>3. after[c] = [rows[c] EXCEPT !.fills = left(rows[c])]
    BY <1>1
  <2>. HIDE DEF left, after
  <2>4. left(rows[c]) \in UNION {[DOMAIN LegsOf[k] -> FillType] : k \in Sets}
    BY <1>1, <2>1 DEF FillsOK
  <2>5. after[c] \in [key : Sets, fills : UNION {[DOMAIN LegsOf[k] -> FillType] : k \in Sets}]
        /\ after[c].key = rows[c].key /\ after[c].fills = left(rows[c])
    BY <1>1, <2>3, <2>4 DEF CaptureType
  <2>6. after[c] \in CaptureType
    BY <2>1, <2>5 DEF CaptureType
  <2>. QED
    BY <2>1, <2>2, <2>5, <2>6
<1>3. DOMAIN after = 1..n
  BY <1>1
<1>4. after \in Seq(CaptureType)
  <2>1. after \in [1..n -> CaptureType]
    BY <1>1, <1>2
  <2>. HIDE DEF after, n
  <2>. QED
    BY <1>1, <2>1
<1>. HIDE DEF after, n
<1>5. Spent(after) = Spent(rows)
  <2>1. [c \in DOMAIN after |-> TotalCost(after[c].fills)]
          = [c \in DOMAIN rows |-> TotalCost(rows[c].fills)]
    BY <1>1, <1>2, <1>3
  <2>. QED
    BY <2>1 DEF Spent
<1>6. AllProceeds(rows) <= AllProceeds(after)
  <2> DEFINE f == [c \in DOMAIN rows |-> Proceeds(rows[c].fills)]
             g == [c \in DOMAIN after |-> Proceeds(after[c].fills)]
  <2>1. /\ DOMAIN f = 1..n /\ DOMAIN g = 1..n
        /\ \A c \in 1..n : f[c] \in Int /\ g[c] \in Int /\ f[c] <= g[c]
    BY <1>1, <1>2, <1>3
  <2>2. AllProceeds(rows) = SumFunction(f) /\ AllProceeds(after) = SumFunction(g)
    BY DEF AllProceeds
  <2>. HIDE DEF f, g
  <2>3. SumFunction(f) <= SumFunction(g)
    BY <1>1, <2>1, TotalMonotone DEF IsSummable
  <2>. QED
    BY <2>2, <2>3
<1>. QED
  BY <1>4, <1>5, <1>6 DEF after

-----------------------------------------------------------------------------
(***************************************************************************)
(* The steps of the coherence portfolio.                                   *)
(***************************************************************************)

\* The portfolio starts with its bankroll and without captures.
LEMMA CoherenceInitOK == CoherenceInit => CoherenceIInv
<1> SUFFICES ASSUME CoherenceInit PROVE CoherenceIInv
  OBVIOUS
<1>1. FeedOK
  BY DEF CoherenceInit, FeedInit, FeedOK
<1>2. captures = <<>> /\ coherenceCash = CoherenceStart /\ scan = NoTxn
  BY DEF CoherenceInit
<1>3. captures \in Seq(CaptureType) /\ DOMAIN captures = {}
  BY <1>2
<1>4. Spent(captures) = 0 /\ AllProceeds(captures) = 0
  BY <1>3, TotalEmpty DEF Spent, AllProceeds
<1>5. CoherenceStart \in Nat
  BY CoherenceConstants
<1>. QED
  BY <1>1, <1>2, <1>3, <1>4, <1>5 DEF CoherenceIInv, ScanOK

\* The collectors write flags, and prices within a dollar.
LEMMA FeedStep == FeedOK /\ FeedNext => FeedOK'
<1> SUFFICES ASSUME FeedOK, FeedNext PROVE FeedOK'
  OBVIOUS
<1>1. CASE Exchange
  BY <1>1 DEF Exchange, EndTrading, Settle, FeedOK
<1>2. CASE Collect
  <2>1. Prices \subseteq 0..100
    <3>1. \A s \in {"yes", "no", "void"} : Payout[s] \in 0..100
      BY DEF Payout
    <3>. QED
      BY <3>1, FeedConstants DEF Prices
  <2>. QED
    BY <1>2, <2>1 DEF Collect, FeedOK
<1>. QED
  BY <1>1, <1>2 DEF FeedNext

\* Redeeming the settled fills credits exactly what they pay back.
LEMMA ResolveFillsKeepsIInv ==
  CoherenceIInv /\ ResolveFills /\ UNCHANGED feedVars => CoherenceIInv'
<1> SUFFICES ASSUME CoherenceIInv, ResolveFills, UNCHANGED feedVars PROVE CoherenceIInv'
  OBVIOUS
<1> DEFINE after == [c \in DOMAIN captures |->
               [captures[c] EXCEPT !.fills = [i \in DOMAIN @ |-> Left(@[i])]]]
<1>1. FeedOK /\ captures \in Seq(CaptureType) /\ coherenceCash \in Nat
      /\ coherenceCash = CoherenceStart - Spent(captures) + AllProceeds(captures)
  BY DEF CoherenceIInv
<1>2. after \in Seq(CaptureType) /\ Spent(after) = Spent(captures)
      /\ AllProceeds(captures) <= AllProceeds(after)
  BY <1>1, LeftKeepsCaptures
<1>3. captures' = after
  BY DEF ResolveFills
<1>. HIDE DEF after
<1>4. coherenceCash' = coherenceCash + AllProceeds(after) - AllProceeds(captures)
  <2>1. AllProceeds(captures') = AllProceeds(after)
    BY <1>3
  <2>. QED
    BY <2>1 DEF ResolveFills
<1>5. /\ Spent(captures) \in Int /\ AllProceeds(captures) \in Int /\ AllProceeds(after) \in Int
      /\ CoherenceStart \in Int
  BY <1>1, <1>2, CaptureMoney, CoherenceConstants
<1>6. coherenceCash' \in Nat
      /\ coherenceCash' = CoherenceStart - Spent(after) + AllProceeds(after)
  BY <1>1, <1>2, <1>4, <1>5
<1>7. ScanOK(scan')
  BY DEF ResolveFills, ScanOK
<1>8. FeedOK'
  BY <1>1 DEF FeedOK, feedVars
<1>. QED
  BY <1>2, <1>3, <1>6, <1>7, <1>8 DEF CoherenceIInv

\* What prices, stores or ends a scan leaves the money alone.
LEMMA ScanKeepsIInv ==
  CoherenceIInv /\ UNCHANGED <<captures, coherenceCash, feedVars>> /\ ScanOK(scan')
    => CoherenceIInv'
BY DEF CoherenceIInv, FeedOK, feedVars

\* Writing captures debits exactly what they cost, and no more than there is.
LEMMA WriteCapturesKeepsIInv ==
  CoherenceIInv /\ WriteCaptures /\ UNCHANGED feedVars => CoherenceIInv'
<1> SUFFICES ASSUME CoherenceIInv, WriteCaptures, UNCHANGED feedVars PROVE CoherenceIInv'
  OBVIOUS
<1> DEFINE priced == scan.priced
<1>1. PICK taken \in Afforded(priced) :
        /\ captures' = captures \o [i \in DOMAIN taken |-> [key |-> taken[i], fills |-> priced[taken[i]]]]
        /\ coherenceCash' = coherenceCash
             - SumFunction([i \in DOMAIN taken |-> TotalCost(priced[taken[i]])])
  BY DEF WriteCaptures
<1>2. PricedOK(priced) /\ captures \in Seq(CaptureType) /\ coherenceCash \in Nat
      /\ coherenceCash = CoherenceStart - Spent(captures) + AllProceeds(captures)
  BY DEF CoherenceIInv, WriteCaptures, ScanOK
<1>. HIDE DEF priced
<1> DEFINE cost == [i \in DOMAIN taken |-> TotalCost(priced[taken[i]])]
           bought == [i \in DOMAIN taken |-> [key |-> taken[i], fills |-> priced[taken[i]]]]
           m == Len(captures)
           n == Len(taken)
           after == captures \o bought
<1>3. /\ taken \in Seq(DOMAIN priced) /\ \A i \in DOMAIN taken : cost[i] \in Int
      /\ SumFunction(cost) \in Int /\ SumFunction(cost) <= coherenceCash
  BY <1>2, AffordedSpends
<1>4. n \in Nat /\ DOMAIN taken = 1..n /\ \A i \in 1..n : taken[i] \in DOMAIN priced
  BY <1>3, SequenceType
<1>5. ASSUME NEW i \in 1..n
      PROVE  bought[i] \in CaptureType /\ Proceeds(bought[i].fills) = 0
             /\ TotalCost(bought[i].fills) = cost[i]
  <2> DEFINE k == taken[i]
  <2>1. k \in Sets /\ priced[k] \in Captures[k]
    BY <1>2, <1>4 DEF PricedOK
  <2>2. FillsOK(k, priced[k]) /\ Proceeds(priced[k]) = 0
    BY <2>1, CapturesType, NothingPaidYet
  <2>3. bought[i] = [key |-> k, fills |-> priced[k]] /\ cost[i] = TotalCost(priced[k])
    BY <1>4
  <2>. HIDE DEF k, bought, cost
  <2>4. priced[k] \in UNION {[DOMAIN LegsOf[l] -> FillType] : l \in Sets}
    BY <2>1, <2>2 DEF FillsOK
  <2>. QED
    BY <2>1, <2>2, <2>3, <2>4 DEF CaptureType
<1>6. bought \in Seq(CaptureType) /\ Len(bought) = n
  <2>1. bought \in [1..n -> CaptureType]
    BY <1>4, <1>5
  <2>. HIDE DEF bought, n
  <2>. QED
    BY <1>4, <2>1
<1>7. captures' = after
  BY <1>1
<1>8. /\ DOMAIN cost = 1..n /\ DOMAIN bought = 1..n
  BY <1>4
<1>9. coherenceCash' = coherenceCash - SumFunction(cost)
  BY <1>1
<1>. HIDE DEF bought, cost, n
<1>10. /\ after \in Seq(CaptureType) /\ Len(after) = m + n
       /\ \A i \in 1..(m + n) : after[i] = IF i <= m THEN captures[i] ELSE bought[i - m]
  BY <1>2, <1>6, ConcatProperties
<1>11. /\ m \in Nat /\ DOMAIN captures = 1..m
       /\ \A c \in 1..m : TotalCost(captures[c].fills) \in Int /\ Proceeds(captures[c].fills) \in Int
       /\ Spent(captures) \in Int /\ AllProceeds(captures) \in Int
  BY <1>2, CaptureMoney
<1>12. DOMAIN after = 1..(m + n)
  BY <1>10, <1>11, <1>4
<1>. HIDE DEF after, m
<1>13. /\ \A i \in 1..m : after[i] = captures[i]
       /\ \A i \in 1..n : after[m + i] = bought[i]
  <2>1. \A i \in 1..m : i \in 1..(m + n) /\ i <= m
    BY <1>4, <1>11
  <2>2. \A i \in 1..n : m + i \in 1..(m + n) /\ ~(m + i <= m) /\ (m + i) - m = i
    BY <1>4, <1>11
  <2>. QED
    BY <1>10, <2>1, <2>2
<1>14. Spent(after) = Spent(captures) + SumFunction(cost)
  <2> DEFINE f == [c \in DOMAIN captures |-> TotalCost(captures[c].fills)]
             h == [c \in DOMAIN after |-> TotalCost(after[c].fills)]
  <2>1. Spent(captures) = SumFunction(f) /\ Spent(after) = SumFunction(h)
    BY DEF Spent
  <2>2. DOMAIN f = 1..m /\ DOMAIN h = 1..(m + n) /\ \A i \in 1..m : f[i] \in Int
    BY <1>11, <1>12
  <2>3. \A i \in 1..m : h[i] = f[i]
    <3>1. \A i \in 1..m : i \in 1..(m + n)
      BY <1>4, <1>11
    <3>. QED
      BY <1>11, <1>12, <1>13, <3>1
  <2>4. \A i \in 1..n : h[m + i] = cost[i] /\ cost[i] \in Int
    <3>1. \A i \in 1..n : m + i \in 1..(m + n)
      BY <1>4, <1>11
    <3>. QED
      BY <1>3, <1>4, <1>5, <1>12, <1>13, <3>1
  <2>. HIDE DEF f, h
  <2>5. IsJoined(f, cost, h, m, n)
    BY <1>4, <1>8, <1>11, <2>2, <2>3, <2>4 DEF IsJoined
  <2>. QED
    BY <2>1, <2>5, TotalJoined
<1>15. AllProceeds(after) = AllProceeds(captures)
  <2> DEFINE f == [c \in DOMAIN captures |-> Proceeds(captures[c].fills)]
             g == [i \in 1..n |-> 0]
             h == [c \in DOMAIN after |-> Proceeds(after[c].fills)]
  <2>1. AllProceeds(captures) = SumFunction(f) /\ AllProceeds(after) = SumFunction(h)
    BY DEF AllProceeds
  <2>2. DOMAIN f = 1..m /\ DOMAIN h = 1..(m + n) /\ \A i \in 1..m : f[i] \in Int
    BY <1>11, <1>12
  <2>3. \A i \in 1..m : h[i] = f[i]
    <3>1. \A i \in 1..m : i \in 1..(m + n)
      BY <1>4, <1>11
    <3>. QED
      BY <1>11, <1>12, <1>13, <3>1
  <2>4. \A i \in 1..n : h[m + i] = 0
    <3>1. \A i \in 1..n : m + i \in 1..(m + n)
      BY <1>4, <1>11
    <3>. QED
      BY <1>5, <1>12, <1>13, <3>1
  <2>5. DOMAIN g = 1..n /\ \A i \in 1..n : g[i] = 0
    OBVIOUS
  <2>6. IsFiniteSet(1..n) /\ \A i \in 1..n : g[i] \in Int /\ h[m + i] = g[i]
    <3>1. IsFiniteSet(1..n)
      BY <1>4, FirstNumbers
    <3>. QED
      BY <2>4, <2>5, <3>1
  <2>. HIDE DEF f, g, h
  <2>7. IsJoined(f, g, h, m, n)
    BY <1>4, <1>11, <2>2, <2>3, <2>5, <2>6 DEF IsJoined
  <2>8. SumFunction(g) = 0
    BY <2>5, <2>6, TotalZero
  <2>9. SumFunction(h) = SumFunction(f) + SumFunction(g)
    BY <2>7, TotalJoined
  <2>. QED
    BY <1>11, <2>1, <2>8, <2>9
<1>16. /\ coherenceCash' \in Nat
       /\ coherenceCash' = CoherenceStart - Spent(after) + AllProceeds(after)
  <2>1. CoherenceStart \in Int
    BY CoherenceConstants
  <2>. QED
    BY <1>2, <1>3, <1>9, <1>11, <1>14, <1>15, <2>1
<1>17. ScanOK(scan') /\ FeedOK'
  BY DEF WriteCaptures, ScanOK, CoherenceIInv, FeedOK, feedVars
<1>. QED
  BY <1>7, <1>10, <1>16, <1>17 DEF CoherenceIInv

\* No step breaks the invariant.
LEMMA CoherenceStep == CoherenceIInv /\ [CoherenceNext]_coherenceAll => CoherenceIInv'
<1> SUFFICES ASSUME CoherenceIInv, [CoherenceNext]_coherenceAll PROVE CoherenceIInv'
  OBVIOUS
<1>0. ScanOK(scan)
  BY DEF CoherenceIInv
<1>1. CASE ResolveFills /\ UNCHANGED feedVars
  BY <1>1, ResolveFillsKeepsIInv
<1>2. CASE Detect /\ UNCHANGED feedVars
  <2>1. UNCHANGED <<captures, coherenceCash, feedVars>>
    BY <1>2 DEF Detect
  <2>2. PICK seen \in SUBSET {k \in Sets : Candidate(k)} : \E promising \in SUBSET seen :
          scan' = [stage |-> "store", seen |-> seen, promising |-> promising]
    BY <1>2 DEF Detect
  <2>3. ScanOK(scan')
    BY <2>2 DEF ScanOK
  <2>. QED
    BY <2>1, <2>3, ScanKeepsIInv
<1>3. CASE StoreOpportunities /\ UNCHANGED feedVars
  <2>1. UNCHANGED <<captures, coherenceCash, feedVars>>
    BY <1>3 DEF StoreOpportunities
  <2>2. scan' = [stage |-> "price", promising |-> scan.promising] /\ scan.promising \subseteq Sets
    BY <1>0, <1>3 DEF StoreOpportunities, ScanOK
  <2>3. ScanOK(scan')
    BY <2>2 DEF ScanOK
  <2>. QED
    BY <2>1, <2>3, ScanKeepsIInv
<1>4. CASE RejectDuplicate /\ UNCHANGED feedVars
  <2>1. UNCHANGED <<captures, coherenceCash, feedVars>> /\ ScanOK(scan')
    BY <1>4 DEF RejectDuplicate, ScanOK
  <2>. QED
    BY <2>1, ScanKeepsIInv
<1>5. CASE PriceCaptures /\ UNCHANGED feedVars
  <2>1. UNCHANGED <<captures, coherenceCash, feedVars>>
    BY <1>5 DEF PriceCaptures
  <2>2. scan.promising \subseteq Sets
    BY <1>0, <1>5 DEF PriceCaptures, ScanOK
  <2>3. PICK kept \in SUBSET scan.promising :
          \E priced \in [kept -> UNION {Captures[k] : k \in scan.promising}] :
            /\ \A k \in kept : priced[k] \in Captures[k]
            /\ scan' = [stage |-> "capture", priced |-> priced]
    BY <1>5 DEF PriceCaptures
  <2>4. ScanOK(scan')
    BY <2>2, <2>3 DEF PricedOK, ScanOK
  <2>. QED
    BY <2>1, <2>4, ScanKeepsIInv
<1>6. CASE WriteCaptures /\ UNCHANGED feedVars
  BY <1>6, WriteCapturesKeepsIInv
<1>7. CASE FailScan /\ UNCHANGED feedVars
  <2>1. UNCHANGED <<captures, coherenceCash, feedVars>> /\ ScanOK(scan')
    BY <1>7 DEF FailScan, ScanOK
  <2>. QED
    BY <2>1, ScanKeepsIInv
<1>8. CASE FeedNext /\ UNCHANGED <<coherenceVars, events>>
  <2>1. FeedOK'
    BY <1>8, FeedStep DEF CoherenceIInv
  <2>. QED
    BY <1>8, <2>1 DEF CoherenceIInv, coherenceVars
<1>9. CASE UNCHANGED coherenceAll
  <2>1. UNCHANGED <<captures, coherenceCash, feedVars>> /\ ScanOK(scan')
    BY <1>0, <1>9 DEF coherenceAll, coherenceVars
  <2>. QED
    BY <2>1, ScanKeepsIInv
<1>. QED
  BY <1>1, <1>2, <1>3, <1>4, <1>5, <1>6, <1>7, <1>8, <1>9 DEF CoherenceNext, RunCoherenceScan

\* The inductive invariant of the coherence portfolio.
THEOREM CoherenceInvariance == CoherenceSpec => []CoherenceIInv
BY CoherenceInitOK, CoherenceStep, PTL DEF CoherenceSpec

\* The bankroll is the start less what the captures cost and plus what they have
\* paid back, and is never overdrawn.
THEOREM CoherenceBalances == CoherenceSpec => []CoherenceLedger
<1>1. CoherenceIInv => CoherenceLedger
  BY DEF CoherenceIInv, CoherenceLedger, Spent
<1>. QED
  BY <1>1, CoherenceInvariance, PTL

\* Once the two legs of a market have left, they have paid more than they cost, and
\* neither leaves without the other.
THEOREM HedgesPay == CoherenceSpec => []HedgePays
<1>1. CoherenceIInv => HedgePays
  <2> SUFFICES ASSUME CoherenceIInv, NEW c \in DOMAIN captures, Complementary(captures[c].key)
               PROVE  LET fills == captures[c].fills
                      IN  /\ (fills[1].exit = Unsettled) <=> (fills[2].exit = Unsettled)
                          /\ fills[1].exit # Unsettled => Proceeds(fills) > TotalCost(fills)
    BY DEF HedgePays
  <2> DEFINE fills == captures[c].fills
             k == captures[c].key
  <2>1. k \in Sets /\ FillsOK(k, fills)
    BY CaptureMoney DEF CoherenceIInv
  <2>. HIDE DEF fills, k
  <2>2. Complementary(k)
    BY DEF k
  <2>3. /\ (fills[1].exit = Unsettled) <=> (fills[2].exit = Unsettled)
        /\ fills[1].exit # Unsettled => fills[1].exit + fills[2].exit = 100
        /\ 10000 * fills[1].size > TotalCost(fills)
    BY <2>1, <2>2 DEF FillsOK
  <2>4. ASSUME fills[1].exit # Unsettled PROVE Proceeds(fills) = 10000 * fills[1].size
    <3> DEFINE part(i) == IF fills[i].exit = Unsettled THEN 0
                          ELSE 100 * fills[i].size * fills[i].exit
               f == [i \in DOMAIN fills |-> part(i)]
               e == [i \in {1} |-> part(i)]
               z == [i \in {} |-> part(i)]
    <3>1. DOMAIN fills = {1, 2}
      <4>1. DOMAIN fills = 1..2
        BY <2>1, <2>2, LegsType DEF FillsOK, Complementary
      <4>. QED
        BY <4>1
    <3>2. /\ fills[1].size \in Nat /\ fills[2].size = fills[1].size
          /\ fills[1].exit \in {0, 100} /\ fills[2].exit \in {0, 100}
          /\ fills[1].exit + fills[2].exit = 100
      BY <2>1, <2>3, <2>4, <3>1, FillsFinite DEF FillsOK
    <3>3. part(1) = 100 * fills[1].size * fills[1].exit /\ part(2) = 100 * fills[1].size * fills[2].exit
          /\ part(1) \in Int /\ part(2) \in Int
      BY <2>3, <2>4, <3>2
    <3>. HIDE DEF part
    <3>4. part(1) + part(2) = 10000 * fills[1].size
      <4>1. \A s \in Nat, a, b \in {0, 100} :
              a + b = 100 => 100 * s * a + 100 * s * b = 10000 * s
        OBVIOUS
      <4>2. 100 * fills[1].size * fills[1].exit + 100 * fills[1].size * fills[2].exit
              = 10000 * fills[1].size
        BY <3>2, <4>1
      <4>. QED
        BY <3>3, <4>2
    <3>5. /\ DOMAIN f = {1, 2} /\ DOMAIN e = {1} /\ DOMAIN z = {}
          /\ f[1] = part(1) /\ f[2] = part(2) /\ e[1] = part(1)
      BY <3>1
    <3>6. IsFiniteSet({1, 2}) /\ IsFiniteSet({1})
      BY FS_EmptySet, FS_AddElement
    <3>. HIDE DEF f, e, z
    <3>7. IsOneMore(e, f, 2) /\ IsOneMore(z, e, 1)
      BY <3>3, <3>5, <3>6 DEF IsOneMore, IsSummable
    <3>8. /\ SumFunction(f) = SumFunction(e) + f[2] /\ SumFunction(e) = SumFunction(z) + e[1]
          /\ SumFunction(z) = 0
      BY <3>5, <3>7, TotalAdd, TotalEmpty
    <3>9. SumFunction(f) = 10000 * fills[1].size
      BY <3>3, <3>4, <3>5, <3>8
    <3>. QED
      BY <3>9 DEF Proceeds, f, part
  <2>. QED
    BY <2>3, <2>4 DEF fills
<1>. QED
  BY <1>1, CoherenceInvariance, PTL

-----------------------------------------------------------------------------
(***************************************************************************)
(* The cap on a cluster's weight.                                          *)
(***************************************************************************)
\* Weights that nothing among them exceeds the cap of: the heaviest of the rest is
\* within what MaxWeightPct of the capped total allows, and if the cap times their
\* number is not more than the whole, all of them are just that.
LEMMA RestIsLight ==
  ASSUME NEW D, IsFiniteSet(D), NEW w \in [D -> Nat], NEW H \in SUBSET D, H # D,
         \A h \in H, d \in D \ H : w[d] < w[h],
         \A d \in D \ H : ~TooHeavy(w, d),
         100 - Cardinality(H) * MaxWeightPct > 0
  PROVE  /\ SumFunctionOnSet(w, D \ H) \in Nat
         /\ \A d \in D \ H :
              LET fair == MaxWeightPct * SumFunctionOnSet(w, D \ H)
                  part == w[d] * (100 - Cardinality(H) * MaxWeightPct)
              IN  part <= fair /\ (Cardinality(D) * MaxWeightPct <= 100 => part = fair)
<1> DEFINE R == D \ H
           M == MaxWeightPct
           a == Cardinality(H)
           r == Cardinality(R)
           left == 100 - a * M
           free == SumFunctionOnSet(w, R)
<1>1. M \in 1..100
  BY V2Constants
<1>2. IsFiniteSet(H) /\ IsFiniteSet(R) /\ R # {} /\ R \subseteq D /\ DOMAIN w = D
      /\ \A x \in D : w[x] \in Nat
  BY FS_Subset
<1>3. a \in Nat /\ r \in Nat /\ Cardinality(D) \in Nat /\ Cardinality(D) = a + r
  <2>1. a \in Nat /\ r \in Nat /\ Cardinality(D) \in Nat
    BY <1>2, FS_CardinalityType
  <2>2. r = Cardinality(D) - Cardinality(D \cap H)
    BY FS_Difference
  <2>3. D \cap H = H
    OBVIOUS
  <2>4. Cardinality(D \cap H) = a
    BY <2>3
  <2>. HIDE DEF a, r
  <2>. QED
    BY <2>1, <2>2, <2>4
<1>4. \A s \in SUBSET R : IsFiniteSet(s) /\ SumFunctionOnSet(w, s) \in Nat
  <2> SUFFICES ASSUME NEW s \in SUBSET R
               PROVE  IsFiniteSet(s) /\ SumFunctionOnSet(w, s) \in Nat
    OBVIOUS
  <2> DEFINE f == [x \in s |-> w[x]]
  <2>1. IsFiniteSet(s)
    BY <1>2, FS_Subset
  <2>2. DOMAIN f = s /\ \A x \in s : f[x] = w[x] /\ f[x] \in Nat
    BY <1>2
  <2>. HIDE DEF f
  <2>3. IsSummable(f) /\ \A x \in DOMAIN f : f[x] >= 0
    BY <2>1, <2>2 DEF IsSummable
  <2>4. SumFunction(f) \in Nat
    BY <2>3, TotalNat
  <2>5. SumFunctionOnSet(f, s) = SumFunctionOnSet(w, s)
    BY <2>1, <2>2, SumSame
  <2>. QED
    BY <2>1, <2>2, <2>4, <2>5 DEF SumFunction
<1>5. free \in Nat
  BY <1>4
<1>6. PICK e \in R : \A d \in R : w[d] <= w[e]
  <2> DEFINE f == [x \in R |-> w[x]]
             V == {f[x] : x \in DOMAIN f}
  <2>1. IsFiniteSet(V)
    <3>1. IsFiniteSet(DOMAIN f)
      BY <1>2
    <3>. HIDE DEF f
    <3>. QED
      BY <3>1, ValuesFinite
  <2>2. V \in SUBSET Int /\ V # {} /\ \A x \in R : w[x] \in V
    BY <1>2
  <2>3. \A v \in V : \E x \in R : v = w[x]
    OBVIOUS
  <2>. HIDE DEF V
  <2>4. Max(V) \in V /\ \A y \in V : Max(V) >= y
    BY <2>1, <2>2, GreatestOfFinite
  <2>5. PICK x \in R : Max(V) = w[x]
    BY <2>3, <2>4
  <2>6. \A d \in R : w[x] >= w[d]
    BY <2>2, <2>4, <2>5
  <2>7. \A d \in R : w[d] \in Nat
    BY <1>2
  <2>. HIDE DEF R
  <2>. QED
    BY <2>5, <2>6, <2>7
<1>. HIDE DEF M, a, r, left, free
<1>7. w[e] * left <= M * free
  <2> DEFINE T == {d \in R : w[d] = w[e]}
             t == Cardinality(T)
             rest == SumFunctionOnSet(w, R \ T)
             heavy == {d \in D : w[d] >= w[e]}
  <2>1. heavy = H \cup T
    <3>1. \A d \in R : w[d] >= w[e] <=> w[d] = w[e]
      BY <1>2, <1>6
    <3>2. \A h \in H : w[h] >= w[e]
      BY <1>2, <1>6
    <3>. QED
      BY <3>1, <3>2
  <2>2. D \ heavy = R \ T
    BY <2>1
  <2>3. IsFiniteSet(T) /\ t \in Nat
    BY <1>4, FS_CardinalityType
  <2>4. Cardinality(heavy) = a + t
    <3>1. H \cap T = {}
      OBVIOUS
    <3>. HIDE DEF T, heavy
    <3>2. Cardinality(H \cup T) = Cardinality(H) + Cardinality(T) - Cardinality(H \cap T)
      BY <1>2, <2>3, FS_Union
    <3>3. Cardinality(H \cap T) = 0
      BY <3>1, FS_EmptySet
    <3>4. Cardinality(heavy) = Cardinality(H \cup T)
      BY <2>1
    <3>5. Cardinality(H) = a
      BY DEF a
    <3>. QED
      BY <1>3, <2>3, <3>2, <3>3, <3>4, <3>5
  <2>5. free = t * w[e] + rest
    <3>1. free = SumFunctionOnSet(w, T) + rest
      <4>1. T \in SUBSET R /\ \A x \in R : w[x] \in Int
        BY <1>2
      <4>. HIDE DEF R, T
      <4>. QED
        BY <1>2, <4>1, SumSplit DEF free
    <3>2. SumFunctionOnSet(w, T) = 0 * SumFunctionOnSet(w, T) + t * w[e]
      <4>1. w[e] \in Int /\ \A x \in T : w[x] \in Int /\ w[x] = 0 * w[x] + w[e]
        BY <1>2
      <4>. HIDE DEF T
      <4>. QED
        BY <2>3, <4>1, SumAffine
    <3>3. SumFunctionOnSet(w, T) \in Int
      BY <1>4
    <3>4. w[e] \in Int /\ rest \in Int
      BY <1>2, <1>4
    <3>. HIDE DEF T, t, rest
    <3>. QED
      BY <2>3, <3>1, <3>2, <3>3, <3>4
  <2>6. rest \in Nat /\ w[e] \in Nat
    BY <1>2, <1>4
  <2>7. 100 - (a + t) * M <= 0 \/ w[e] * (100 - (a + t) * M) <= M * rest
    <3>1. ~TooHeavy(w, e)
      OBVIOUS
    <3>2. ~(/\ 100 - Cardinality(heavy) * M > 0
            /\ w[e] * (100 - Cardinality(heavy) * M) > M * SumFunctionOnSet(w, D \ heavy))
      BY <1>2, <3>1 DEF TooHeavy, M
    <3>. HIDE DEF heavy, rest, T, t, R
    <3>3. ~(/\ 100 - (a + t) * M > 0 /\ w[e] * (100 - (a + t) * M) > M * SumFunctionOnSet(w, R \ T))
      BY <2>2, <2>4, <3>2
    <3>4. 100 - (a + t) * M \in Int /\ w[e] * (100 - (a + t) * M) \in Int /\ M * rest \in Int
      <4>1. \A p, q, u, v, x \in Int : 100 - (p + q) * u \in Int /\ v * (100 - (p + q) * u) \in Int
                                        /\ u * x \in Int
        OBVIOUS
      <4>. QED
        BY <1>1, <1>3, <2>3, <2>6, <4>1
    <3>5. rest = SumFunctionOnSet(w, R \ T)
      BY DEF rest
    <3>. QED
      BY <3>3, <3>4, <3>5
  <2>8. \A p, q, u, v, x \in Nat : 100 - (p + q) * u <= 0 \/ v * (100 - (p + q) * u) <= u * x
          => v * (100 - p * u) <= u * (q * v + x)
    <3> SUFFICES ASSUME NEW p \in Nat, NEW q \in Nat, NEW u \in Nat, NEW v \in Nat, NEW x \in Nat,
                        100 - (p + q) * u <= 0 \/ v * (100 - (p + q) * u) <= u * x
                 PROVE  v * (100 - p * u) <= u * (q * v + x)
      OBVIOUS
    <3> DEFINE l == 100 - (p + q) * u
    <3>1. l \in Int /\ 100 - p * u = l + q * u
      OBVIOUS
    <3>2. v * l <= u * x
      <4>1. CASE l <= 0
        <5>1. \A m \in Int : m <= 0 => v * m <= 0
          OBVIOUS
        <5>2. u * x >= 0 /\ u * x \in Int
          OBVIOUS
        <5>3. v * l <= 0 /\ v * l \in Int
          BY <3>1, <4>1, <5>1
        <5>. QED
          BY <5>2, <5>3
      <4>. QED
        BY <4>1
    <3>3. v * (l + q * u) = v * l + u * (q * v)
      BY <3>1
    <3>4. u * (q * v + x) = u * (q * v) + u * x
      OBVIOUS
    <3>5. v * l \in Int /\ u * (q * v) \in Int /\ u * x \in Int
      BY <3>1
    <3>. HIDE DEF l
    <3>. QED
      BY <3>1, <3>2, <3>3, <3>4, <3>5
  <2>9. M \in Nat
    BY <1>1
  <2>. HIDE DEF T, t, rest, heavy
  <2>10. w[e] * (100 - a * M) <= M * (t * w[e] + rest)
    BY <1>3, <2>3, <2>6, <2>7, <2>8, <2>9
  <2>. QED
    BY <2>5, <2>10 DEF left
<1>8. left \in Nat /\ M \in Nat
  <2>1. left > 0
    BY DEF left, a, M
  <2>2. left \in Int /\ M \in Nat
    BY <1>1, <1>3 DEF left
  <2>. QED
    BY <2>1, <2>2
<1>9. \A d \in R : w[d] \in Nat /\ w[d] * left <= w[e] * left
  <2>1. \A x, y, z \in Nat : x <= y => x * z <= y * z
    OBVIOUS
  <2>. QED
    BY <1>2, <1>6, <1>8, <2>1
<1>10. ASSUME Cardinality(D) * M <= 100
       PROVE  \A d \in R : w[d] * left = M * free
  <2>1. M * r <= left
    <3>1. \A p, q, u \in Nat : (p + q) * u <= 100 => u * q <= 100 - p * u
      OBVIOUS
    <3>. QED
      BY <1>3, <1>8, <1>10, <3>1 DEF left
  <2>2. \A d \in R : w[d] = w[e]
    <3> SUFFICES ASSUME NEW d \in R, w[d] < w[e] PROVE FALSE
      BY <1>2, <1>6
    <3> DEFINE others == SumFunctionOnSet(w, R \ {d})
    <3>1. free = w[d] + others
      <4>1. \A x \in R : w[x] \in Int
        BY <1>2
      <4>. HIDE DEF R
      <4>. QED
        BY <1>2, <4>1, SumTake DEF free
    <3>2. Cardinality(R \ {d}) = r - 1 /\ IsFiniteSet(R \ {d})
      <4>1. d \in R
        OBVIOUS
      <4>. HIDE DEF R
      <4>2. /\ IsFiniteSet(R \ {d})
            /\ Cardinality(R \ {d}) = IF d \in R THEN Cardinality(R) - 1 ELSE Cardinality(R)
        BY <1>2, FS_RemoveElement
      <4>. QED
        BY <4>1, <4>2 DEF r
    <3>3. others <= (r - 1) * w[e]
      <4>1. w[e] \in Int /\ \A x \in R \ {d} : w[x] \in Int /\ w[x] <= w[e]
        BY <1>2, <1>6
      <4>2. others <= Cardinality(R \ {d}) * w[e]
        BY <3>2, <4>1, SumAtMost
      <4>. QED
        BY <3>2, <4>2
    <3>4. others \in Int /\ w[d] \in Nat /\ w[e] \in Nat
      BY <1>2, <1>4
    <3>. HIDE DEF others, R
    <3>5. free <= r * w[e] - 1
      <4>1. (r - 1) * w[e] = r * w[e] - w[e] /\ r * w[e] \in Int
        BY <1>3, <3>4
      <4>. QED
        BY <3>1, <3>3, <3>4, <4>1
    <3>6. M * free < M * (r * w[e])
      <4>1. \A x, y, u \in Int : u > 0 /\ x <= y - 1 => u * x < u * y
        OBVIOUS
      <4>2. r * w[e] \in Int /\ M \in Int /\ M > 0 /\ free \in Int
        BY <1>1, <1>3, <1>5, <3>4
      <4>. QED
        BY <3>5, <4>1, <4>2
    <3>7. M * (r * w[e]) <= w[e] * left
      <4>1. \A u, q, v, l \in Nat : u * q <= l => u * (q * v) <= v * l
        <5> SUFFICES ASSUME NEW u \in Nat, NEW q \in Nat, NEW v \in Nat, NEW l \in Nat, u * q <= l
                     PROVE  u * (q * v) <= v * l
          OBVIOUS
        <5>1. u * (q * v) = v * (u * q) /\ u * q \in Nat
          OBVIOUS
        <5>2. \A x, y \in Nat : x <= y => v * x <= v * y
          OBVIOUS
        <5>. QED
          BY <5>1, <5>2
      <4>. QED
        BY <1>3, <1>8, <2>1, <3>4, <4>1
    <3>8. M * free \in Int /\ M * (r * w[e]) \in Int /\ w[e] * left \in Int
      BY <1>3, <1>5, <1>8, <3>4
    <3>. QED
      BY <1>7, <3>6, <3>7, <3>8
  <2>3. free = r * w[e]
    <3>1. w[e] \in Int /\ \A x \in R : w[x] \in Int /\ w[x] = 0 * w[x] + w[e]
      BY <1>2, <2>2
    <3>. HIDE DEF R
    <3>2. free = 0 * free + r * w[e]
      BY <1>2, <3>1, SumAffine DEF free, r
    <3>. QED
      BY <1>3, <1>5, <3>1, <3>2
  <2>4. w[e] \in Nat
    BY <1>2
  <2>5. M * (r * w[e]) <= w[e] * left
    <3>1. \A u, q, v, l \in Nat : u * q <= l => u * (q * v) <= v * l
      <4> SUFFICES ASSUME NEW u \in Nat, NEW q \in Nat, NEW v \in Nat, NEW l \in Nat, u * q <= l
                   PROVE  u * (q * v) <= v * l
        OBVIOUS
      <4>1. u * (q * v) = v * (u * q) /\ u * q \in Nat
        OBVIOUS
      <4>2. \A x, y \in Nat : x <= y => v * x <= v * y
        OBVIOUS
      <4>. QED
        BY <4>1, <4>2
    <3>. QED
      BY <1>3, <1>8, <2>1, <2>4, <3>1
  <2>6. w[e] * left = M * free
    <3>1. M * free \in Int /\ w[e] * left \in Int
      BY <1>5, <1>8, <2>4
    <3>. QED
      BY <1>7, <2>3, <2>5, <3>1
  <2>. QED
    BY <2>2, <2>6
<1>11. \A d \in R : w[d] * left <= M * free
  <2>1. M * free \in Int /\ w[e] * left \in Int /\ \A d \in R : w[d] * left \in Int
    BY <1>2, <1>5, <1>8
  <2>. QED
    BY <1>7, <1>9, <2>1
<1>. QED
  BY <1>5, <1>10, <1>11 DEF left, free, a, M

\* What the cap promises of the weights it returns.
CapHolds(capped) ==
  \A c \in DOMAIN capped :
    IF Cardinality(DOMAIN capped) * MaxWeightPct > 100
      THEN 100 * capped[c] <= MaxWeightPct * SumFunction(capped)
      ELSE \A d \in DOMAIN capped : capped[c] = capped[d]

\* The peeled weights are those of a lightest cluster that is too heavy, and what
\* is left of the whole for the others is positive.
LEMMA CappedAreHeavy ==
  ASSUME NEW D, NEW w \in [D -> Nat], Capped(w) # {}
  PROVE  100 - Cardinality(Capped(w)) * MaxWeightPct > 0
<1> DEFINE V == {w[c] : c \in {x \in D : TooHeavy(w, x)}}
<1>1. V \in SUBSET Nat /\ V # {}
  BY DEF Capped
<1>2. Least(V) \in V /\ \A y \in V : Least(V) <= y
  <2>. HIDE DEF V
  <2>. QED
    BY <1>1, LeastOfNaturals
<1>3. PICK c \in D : TooHeavy(w, c) /\ \A y \in V : w[c] <= y
  BY <1>2
<1>4. \A x \in D : TooHeavy(w, x) => w[c] <= w[x]
  BY <1>3
<1>5. Capped(w) = {d \in DOMAIN w : w[d] >= w[c]}
  <2>1. \A d \in D : w[d] \in Nat
    OBVIOUS
  <2>2. DOMAIN w = D
    OBVIOUS
  <2>3. ASSUME NEW d \in D PROVE d \in Capped(w) <=> w[d] >= w[c]
    <3>1. CASE w[d] >= w[c]
      BY <1>3, <2>2, <3>1 DEF Capped
    <3>2. CASE d \in Capped(w)
      <4>1. PICK x \in D : w[d] >= w[x] /\ TooHeavy(w, x)
        BY <2>2, <3>2 DEF Capped
      <4>. QED
        BY <1>4, <2>1, <3>2, <4>1
    <3>. QED
      BY <3>1, <3>2
  <2>4. Capped(w) \subseteq D
    BY <2>2 DEF Capped
  <2>. QED
    BY <2>2, <2>3, <2>4
<1>. QED
  BY <1>3, <1>5 DEF TooHeavy

\* The capped weights hold the cap, whatever the weights are.
LEMMA CapIsKept ==
  ASSUME NEW D, IsFiniteSet(D), NEW w \in [D -> Nat]
  PROVE  CapHolds(CapClusterWeights(w))
<1> DEFINE H == Capped(w)
           M == MaxWeightPct
           left == 100 - Cardinality(H) * M
           free == SumFunctionOnSet(w, D \ H)
           n == Cardinality(D)
<1>1. M \in 1..100
  BY V2Constants
<1>2. DOMAIN w = D /\ H \subseteq D /\ \A d \in D : w[d] \in Nat
  BY DEF Capped
<1>3. IsFiniteSet(H) /\ Cardinality(H) \in Nat /\ n \in Nat
  BY <1>2, FS_Subset, FS_CardinalityType
<1>4. \A d \in D \ H : ~TooHeavy(w, d)
  BY <1>2 DEF Capped
<1>5. \A h \in H, d \in D \ H : w[d] < w[h]
  <2> SUFFICES ASSUME NEW h \in H, NEW d \in D \ H, w[d] >= w[h] PROVE FALSE
    BY <1>2
  <2>1. PICK c \in D : w[h] >= w[c] /\ TooHeavy(w, c)
    BY <1>2 DEF Capped
  <2>2. w[d] >= w[c]
    BY <1>2, <2>1
  <2>. QED
    BY <1>2, <2>1, <2>2 DEF Capped
<1>6. left \in Int /\ left > 0
  <2>1. left \in Int
    BY <1>1, <1>3
  <2>2. CASE H = {}
    <3>1. Cardinality(H) = 0
      BY <2>2, FS_EmptySet
    <3>2. 100 - 0 * M = 100
      BY <1>1
    <3>. QED
      BY <3>1, <3>2
  <2>3. CASE H # {}
    <3>1. left > 0
      BY <2>3, CappedAreHeavy
    <3>. QED
      BY <2>1, <3>1
  <2>. QED
    BY <2>1, <2>2, <2>3
<1>7. ASSUME H # D
      PROVE  /\ free \in Nat
             /\ \A d \in D \ H : w[d] * left <= M * free /\ (n * M <= 100 => w[d] * left = M * free)
  <2>1. H \in SUBSET D
    BY <1>2
  <2>2. 100 - Cardinality(H) * MaxWeightPct > 0
    BY <1>6
  <2>. HIDE DEF H
  <2>. QED
    BY <1>4, <1>5, <1>7, <2>1, <2>2, RestIsLight
<1>. HIDE DEF H, n
<1>8. CASE H = {}
  <2>1. CapClusterWeights(w) = w
    BY <1>8 DEF CapClusterWeights, H
  <2>2. CASE D = {}
    BY <1>2, <2>1, <2>2 DEF CapHolds
  <2>3. CASE D # {}
    <3>1. D \ H = D /\ left = 100
      <4>1. Cardinality(H) = 0
        BY <1>8, FS_EmptySet
      <4>2. 100 - 0 * M = 100
        BY <1>1
      <4>. QED
        BY <1>8, <4>1, <4>2
    <3>2. free = SumFunction(w)
      BY <1>2, <3>1 DEF SumFunction
    <3>3. \A d \in D : w[d] * 100 <= M * SumFunction(w)
                       /\ (n * M <= 100 => w[d] * 100 = M * SumFunction(w))
      BY <1>7, <1>8, <2>3, <3>1, <3>2
    <3>4. n * M \in Int /\ (n * M > 100 \/ n * M <= 100)
      BY <1>1, <1>3
    <3>5. \A d \in D : w[d] * 100 = 100 * w[d]
      BY <1>2
    <3>6. CASE n * M > 100
      BY <1>2, <2>1, <3>3, <3>5, <3>6 DEF CapHolds, n
    <3>7. CASE n * M <= 100
      <4>1. \A c, d \in D : w[c] = w[d]
        <5>1. \A c, d \in D : w[c] * 100 = w[d] * 100
          BY <3>3, <3>7
        <5>2. \A x, y \in Nat : x * 100 = y * 100 => x = y
          OBVIOUS
        <5>. QED
          BY <1>2, <5>1, <5>2
      <4>2. ~(n * M > 100)
        BY <3>4, <3>7
      <4>. QED
        BY <1>2, <2>1, <4>1, <4>2 DEF CapHolds, n
    <3>. QED
      BY <3>4, <3>6, <3>7
  <2>. QED
    BY <2>2, <2>3
<1>9. CASE H # {} /\ H = D
  <2> DEFINE f == [c \in D |-> 1]
  <2>1. CapClusterWeights(w) = f
    BY <1>2, <1>9 DEF CapClusterWeights, H
  <2>2. DOMAIN f = D /\ \A c \in D : f[c] = 1
    OBVIOUS
  <2>. HIDE DEF f
  <2>3. SumFunction(f) = n
    <3>1. \A x \in D : f[x] \in Int /\ f[x] = 0 * f[x] + 1
      BY <2>2
    <3>2. SumFunctionOnSet(f, D) = 0 * SumFunctionOnSet(f, D) + n * 1
      BY <3>1, SumAffine DEF n
    <3>3. SumFunctionOnSet(f, D) \in Int
      BY <3>1, SumInt
    <3>. QED
      BY <1>3, <2>2, <3>2, <3>3 DEF SumFunction
  <2>4. n * M > 100 => 100 * 1 <= M * n
    BY <1>1, <1>3
  <2>. QED
    BY <2>1, <2>2, <2>3, <2>4 DEF CapHolds, n
<1>10. CASE H # {} /\ H # D
  <2> DEFINE h == [c \in D |-> IF c \in H THEN M * free ELSE w[c] * left]
  <2>1. CapClusterWeights(w) = h
    BY <1>2, <1>10 DEF CapClusterWeights, H
  <2>2. DOMAIN h = D /\ (\A c \in H : h[c] = M * free) /\ (\A c \in D \ H : h[c] = w[c] * left)
    BY <1>2
  <2>. HIDE DEF h
  <2>3. free \in Nat /\ M * free \in Int
    BY <1>1, <1>7, <1>10
  <2>4. \A c \in D : h[c] \in Int
    <3>1. \A c \in D : w[c] * left \in Int
      BY <1>2, <1>6
    <3>. QED
      BY <2>2, <2>3, <3>1
  <2>5. SumFunctionOnSet(h, H) = Cardinality(H) * (M * free)
    <3>2. M * free \in Int /\ 0 \in Int
      BY <2>3
    <3> DEFINE u == M * free
    <3>0. u \in Int /\ \A x \in H : h[x] = u
      BY <2>2, <3>2
    <3>. HIDE DEF u, M, free
    <3>1. \A x \in H : h[x] \in Int /\ h[x] = 0 * h[x] + u
      BY <3>0
    <3>6. u = M * free
      BY DEF u
    <3>3. SumFunctionOnSet(h, H) = 0 * SumFunctionOnSet(h, H) + Cardinality(H) * u
      BY <1>3, <3>0, <3>1, <3>2, SumAffine
    <3>4. SumFunctionOnSet(h, H) \in Int
      BY <1>3, <3>1, SumInt
    <3>5. Cardinality(H) * u \in Int
      BY <1>3, <3>0
    <3>. QED
      BY <3>3, <3>4, <3>5, <3>6
  <2>6. SumFunctionOnSet(h, D \ H) = left * free
    <3>1. \A x \in D \ H : w[x] \in Int /\ h[x] = left * w[x] + 0
      BY <1>2, <1>6, <2>2
    <3>2. IsFiniteSet(D \ H) /\ Cardinality(D \ H) \in Int
      <4>1. IsFiniteSet(D \ H)
        BY FS_Subset
      <4>. QED
        BY <4>1, FS_CardinalityType
    <3>3. SumFunctionOnSet(h, D \ H) = left * SumFunctionOnSet(w, D \ H) + Cardinality(D \ H) * 0
      <4>1. left \in Int /\ 0 \in Int
        BY <1>6
      <4>. HIDE DEF left
      <4>. QED
        BY <3>1, <3>2, <4>1, SumAffine
    <3>4. left * SumFunctionOnSet(w, D \ H) \in Int
      BY <1>6, <2>3
    <3>. QED
      BY <3>2, <3>3, <3>4
  <2>7. SumFunction(h) = 100 * free
    <3>1. SumFunctionOnSet(h, D) = SumFunctionOnSet(h, H) + SumFunctionOnSet(h, D \ H)
      BY <1>2, <2>4, SumSplit
    <3>2. \A p, u, x \in Nat : p * (u * x) + (100 - p * u) * x = 100 * x
      OBVIOUS
    <3>3. Cardinality(H) * (M * free) + left * free = 100 * free
      BY <1>1, <1>3, <2>3, <3>2
    <3>. QED
      BY <2>2, <2>5, <2>6, <3>1, <3>3 DEF SumFunction
  <2>8. \A c \in D : h[c] <= M * free
    <3>1. \A c \in D \ H : h[c] <= M * free
      BY <1>7, <1>10, <2>2
    <3>. QED
      BY <2>2, <2>3, <3>1
  <2>9. \A c \in D : 100 * h[c] <= M * (100 * free)
    <3>1. \A x, y, u \in Int : x <= u * y => 100 * x <= u * (100 * y)
      OBVIOUS
    <3>. QED
      BY <1>1, <2>3, <2>4, <2>8, <3>1
  <2>10. n * M <= 100 => \A c \in D : h[c] = M * free
    BY <1>7, <1>10, <2>2
  <2>11. n * M \in Int /\ (n * M > 100 \/ n * M <= 100)
    BY <1>1, <1>3
  <2>. HIDE DEF free, left
  <2>12. CASE n * M > 100
    BY <2>1, <2>2, <2>7, <2>9, <2>12 DEF CapHolds, n
  <2>13. CASE n * M <= 100
    <3>1. ~(n * M > 100)
      BY <2>11, <2>13
    <3>. QED
      BY <2>1, <2>2, <2>10, <2>13, <3>1 DEF CapHolds, n
  <2>. QED
    BY <2>11, <2>12, <2>13
<1>. QED
  BY <1>8, <1>9, <1>10

-----------------------------------------------------------------------------
(***************************************************************************)
(* The consensus_prob portfolio: weights, votes and fees are numbers.      *)
(***************************************************************************)
\* A category score is the number of rates a bound rejects.
LEMMA CategoryScoreIsNatural == \A w, k : CategoryScore(w, k) \in Nat
<1> SUFFICES ASSUME NEW w, NEW k PROVE CategoryScore(w, k) \in Nat
  OBVIOUS
<1>1. \A u, v, n : WilsonLowPercentIn(u, v, n) \in Nat
  <2> SUFFICES ASSUME NEW u, NEW v, NEW n PROVE WilsonLowPercentIn(u, v, n) \in Nat
    OBVIOUS
  <2> DEFINE R == {c \in 0..99 : WilsonLowAboveIn(u, v, n, c)}
  <2>0. \A m \in Nat : IsFiniteSet(0..m)
    BY FS_Interval
  <2>1. IsFiniteSet(0..99)
    BY <2>0
  <2>2. R \subseteq 0..99
    OBVIOUS
  <2>. HIDE DEF R
  <2>3. Cardinality(R) \in Nat
    BY <2>1, <2>2, FS_Subset, FS_CardinalityType
  <2>. QED
    BY <2>3 DEF WilsonLowPercentIn, R
<1>2. ASSUME NEW c, NEW v \in DOMAIN RunCategoryScoring(c)
      PROVE  RunCategoryScoring(c)[v] \in Nat
  <2>1. DOMAIN << >> = {}
    OBVIOUS
  <2>2. RunCategoryScoring(c) # << >>
    BY <1>2, <2>1
  <2>. QED
    BY <1>1, <1>2, <2>2 DEF RunCategoryScoring, ComputeCategoryScore
<1>. QED
  BY <1>2 DEF CategoryScore, LatestCategoryScores

\* What a cluster holds on a side is a number.
LEMMA UsdType ==
  ASSUME NEW rows \in Exposures, NEW c, NEW side
  PROVE  Usd(rows, c, side) \in Int
<1> DEFINE f == [r \in {q \in rows : ClusterOf(q.wallet) = c /\ q.side = side} |-> r.usd]
<1>1. IsFiniteSet(rows) /\ \A r \in rows : r.usd \in Int
  BY V2Constants
<1>2. DOMAIN f \subseteq rows /\ \A r \in DOMAIN f : f[r] \in Int
  BY <1>1
<1>3. Usd(rows, c, side) = SumFunction(f)
  BY DEF Usd
<1>. HIDE DEF f
<1>4. IsSummable(f)
  BY <1>1, <1>2, FS_Subset DEF IsSummable
<1>. QED
  BY <1>3, <1>4, TotalInt

\* Finitely many clusters have an opinion, each with a natural weight.
LEMMA WeightsType ==
  ASSUME NEW rows \in Exposures
  PROVE  IsFiniteSet(Opinions(rows)) /\ Weights(rows) \in [Opinions(rows) -> Nat]
<1>1. IsFiniteSet(rows)
  BY V2Constants
<1>2. IsFiniteSet(Opinions(rows))
  <2> DEFINE f == [r \in rows |-> ClusterOf(r.wallet)]
             V == {f[r] : r \in DOMAIN f}
  <2>1. Opinions(rows) \subseteq V
    BY DEF Opinions
  <2>2. IsFiniteSet(DOMAIN f)
    BY <1>1
  <2>3. IsFiniteSet(V)
    <3>. HIDE DEF f
    <3>. QED
      BY <2>2, ValuesFinite
  <2>. HIDE DEF V
  <2>. QED
    BY <2>1, <2>3, FS_Subset
<1>3. ASSUME NEW c \in Opinions(rows) PROVE Score(rows, c) \in Nat
  <2> DEFINE mine == {q \in rows : ClusterOf(q.wallet) = c}
             f == [r \in mine |-> CategoryScore(r.wallet, Category)]
             V == {f[r] : r \in DOMAIN f}
  <2>1. PICK r \in rows : ClusterOf(r.wallet) = c
    BY DEF Opinions
  <2>2. DOMAIN f = mine /\ IsFiniteSet(mine) /\ \A q \in mine : f[q] \in Nat
    BY <1>1, FS_Subset, CategoryScoreIsNatural
  <2>3. Score(rows, c) = Max({CategoryScore(q.wallet, Category) : q \in mine})
    BY DEF Score
  <2>4. V = {CategoryScore(q.wallet, Category) : q \in mine}
    OBVIOUS
  <2>5. r \in mine
    BY <2>1
  <2>. HIDE DEF f, mine
  <2>6. V \in SUBSET Nat /\ V # {}
    BY <2>2, <2>5
  <2>7. IsFiniteSet(V)
    BY <2>2, ValuesFinite
  <2>8. V \in SUBSET Int
    BY <2>6
  <2>. HIDE DEF V
  <2>9. Max(V) \in V
    BY <2>6, <2>7, <2>8, GreatestOfFinite
  <2>. QED
    BY <2>3, <2>4, <2>6, <2>9
<1>4. ASSUME NEW c \in Opinions(rows) PROVE Distance(Net(rows, c), 0) \in Nat
  <2>1. Usd(rows, c, "yes") \in Int /\ Usd(rows, c, "no") \in Int
    BY UsdType
  <2>2. Net(rows, c) \in Int
    BY <2>1 DEF Net
  <2>. QED
    BY <2>2 DEF Distance
<1>5. ASSUME NEW c \in Opinions(rows)
      PROVE  Score(rows, c) * Distance(Net(rows, c), 0) \in Nat
  <2>1. \A x, y \in Nat : x * y \in Nat
    OBVIOUS
  <2>. QED
    BY <1>3, <1>4, <2>1
<1>. QED
  BY <1>2, <1>5 DEF Weights

\* Capped weights are numbers.
LEMMA CappedType ==
  ASSUME NEW D, IsFiniteSet(D), NEW w \in [D -> Nat]
  PROVE  CapClusterWeights(w) \in [D -> Int]
<1> DEFINE H == Capped(w)
           left == 100 - Cardinality(H) * MaxWeightPct
           free == SumFunctionOnSet(w, D \ H)
<1>1. DOMAIN w = D /\ H \subseteq D /\ \A d \in D : w[d] \in Int
  BY DEF Capped
<1>2. Cardinality(H) \in Int /\ MaxWeightPct \in Int
  BY <1>1, FS_Subset, FS_CardinalityType, V2Constants
<1>3. free \in Int
  <2>1. IsFiniteSet(D \ H) /\ \A x \in D \ H : w[x] \in Int
    BY <1>1, FS_Subset
  <2>. HIDE DEF H
  <2>. QED
    BY <2>1, SumInt
<1>4. left \in Int
  BY <1>2
<1>5. \A d \in D : w[d] * left \in Int
  BY <1>1, <1>4
<1>6. MaxWeightPct * free \in Int
  BY <1>2, <1>3
<1>7. CapClusterWeights(w) =
        IF H = {} THEN w
        ELSE IF H = D THEN [c \in D |-> 1]
             ELSE [c \in D |-> IF c \in H THEN MaxWeightPct * free ELSE w[c] * left]
  BY <1>1 DEF CapClusterWeights
<1>. HIDE DEF H, left, free
<1>. QED
  BY <1>1, <1>5, <1>6, <1>7

\* The weighted vote is a number where it is taken.
LEMMA PConsensusType ==
  ASSUME NEW rows \in Exposures, SumFunction(CapClusterWeights(Weights(rows))) > 0
  PROVE  PConsensus(rows) \in Int
<1> DEFINE D == Opinions(rows)
           w == CapClusterWeights(Weights(rows))
           f == [c \in DOMAIN w |-> IF Net(rows, c) > 0 THEN w[c] ELSE -w[c]]
<1>1. IsFiniteSet(D) /\ w \in [D -> Int]
  BY WeightsType, CappedType
<1>2. Signed(rows, w) = SumFunction(f)
  BY DEF Signed
<1>3. PConsensus(rows) = (50 * (Signed(rows, w) + SumFunction(w))) \div SumFunction(w)
  BY DEF PConsensus
<1>4. SumFunction(w) > 0
  OBVIOUS
<1>. HIDE DEF w
<1>5. DOMAIN f = D /\ \A c \in D : f[c] \in Int
  BY <1>1
<1>. HIDE DEF f, D
<1>6. IsSummable(f) /\ IsSummable(w)
  BY <1>1, <1>5 DEF IsSummable
<1>7. SumFunction(f) \in Int /\ SumFunction(w) \in Int
  BY <1>6, TotalInt
<1>8. \A a, b \in Int : b > 0 => (50 * (a + b)) \div b \in Int
  OBVIOUS
<1>. QED
  BY <1>2, <1>3, <1>4, <1>7, <1>8

\* At a rate within the dollar a fee is no more than the trade is worth.
LEMMA FeeWithinValue ==
  ASSUME NEW price \in Nat, NEW size \in Nat, NEW rate \in 0..100
  PROVE  TakerFee(price, size, rate) \in Int /\ TakerFee(price, size, rate) <= 100 * size * price
<1> DEFINE x == size * price
           y == rate * (100 - price)
           v == x * y
           q == v \div 100
<1>1. x \in Nat /\ y \in Int /\ y <= 10000
  <2>1. x \in Nat /\ y \in Int
    OBVIOUS
  <2>2. CASE price <= 100
    <3>1. 100 - price \in Nat /\ 100 - price <= 100
      BY <2>2
    <3>2. \A a, b \in 0..100 : a * b <= 100 * 100
      OBVIOUS
    <3>3. 100 - price \in 0..100
      BY <3>1
    <3>. QED
      BY <2>1, <3>2, <3>3
  <2>3. CASE price > 100
    <3>1. 100 - price \in Int /\ 100 - price <= 0
      BY <2>3
    <3>2. \A a \in Nat, b \in Int : b <= 0 => a * b <= 0
      OBVIOUS
    <3>. QED
      BY <2>1, <3>1, <3>2
  <2>. QED
    BY <2>1, <2>2, <2>3
<1>2. TakerFee(price, size, rate) = q
  <2>1. size * rate * price * (100 - price) = x * y
    <3>1. \A a, b, c, d \in Int : a * b * c * d = (a * c) * (b * d)
      OBVIOUS
    <3>2. 100 - price \in Int /\ rate \in Int /\ size \in Int /\ price \in Int
      OBVIOUS
    <3>. QED
      BY <3>1, <3>2
  <2>. QED
    BY <2>1 DEF TakerFee
<1>3. 100 * size * price = 100 * x
  OBVIOUS
<1>. HIDE DEF x, y
<1>4. v \in Int /\ v <= 10000 * x
  <2>1. \A a \in Nat, b \in Int : b <= 10000 => a * b \in Int /\ a * b <= 10000 * a
    OBVIOUS
  <2>. QED
    BY <1>1, <2>1
<1>. HIDE DEF v
<1>5. q \in Int /\ q <= 100 * x
  <2>1. q \in Int /\ 100 * q <= v
    BY <1>4
  <2>. QED
    BY <1>1, <1>4, <2>1
<1>. QED
  BY <1>2, <1>3, <1>5

-----------------------------------------------------------------------------
(***************************************************************************)
(* The consensus_prob portfolio: its inductive invariant.                  *)
(***************************************************************************)
\* A row of signals_prob.
SignalType == [market : Scanned, p : Int, price : Int, outcome : {NotFilled, 0, 100}]

\* A row of signal_prob_trades.
SideTradeRow ==
  [signal : Nat \ {0}, token : [market : Markets, side : {"yes"}], price : Nat \ {0},
   size : Nat \ {0}, fee : Int, at : Nat, exit : Int, paid : Int,
   reason : {"none", "market_resolved", "signal_expired"}]

\* One that is open has paid nothing, and one that a settlement ended left at
\* nothing or a dollar.
SideTradeType ==
  {t \in SideTradeRow :
     /\ t.exit = Unsettled <=> t.reason = "none"
     /\ t.reason = "none" => t.paid = 0
     /\ t.reason = "market_resolved" => t.exit \in {0, 100}}

\* Every trade has a signal of its own; a signal's outcome is what a settlement
\* made of its trade.
LinksOK(sigs, rows) ==
  /\ \A t \in DOMAIN rows : rows[t].signal \in DOMAIN sigs
  /\ \A t, u \in DOMAIN rows : rows[t].signal = rows[u].signal => t = u
  /\ \A t \in DOMAIN rows :
       sigs[rows[t].signal].outcome =
         IF rows[t].reason = "market_resolved" THEN rows[t].exit ELSE NotFilled
  /\ \A i \in DOMAIN sigs :
       (\A t \in DOMAIN rows : rows[t].signal # i) => sigs[i].outcome = NotFilled

FoundType ==
  [signal : {s \in SignalType : s.outcome = NotFilled}, asks : Seq(Levels) \ {<<>>},
   rows : Exposures]

\* What a running scan knows since when, and what it has found.
V2ScanOK(s) ==
  s # NoTxn =>
    /\ s.at \in Nat
    /\ s.found # <<>> => s.found[1] \in FoundType

\* What a trade has brought so far.
Worth(t) == t.paid - 100 * t.size * t.price - t.fee

\* The inductive invariant.
V2IInv ==
  /\ FeedOK /\ now \in Nat
  /\ signals \in Seq(SignalType) /\ trades \in Seq(SideTradeType)
  /\ v2Cash \in Nat
  /\ v2Cash = V2Start + SumFunction([i \in DOMAIN trades |-> Worth(trades[i])])
  /\ LinksOK(signals, trades)
  /\ V2ScanOK(v2)

-----------------------------------------------------------------------------
\* A trade's worth is a number.
LEMMA WorthType == \A t \in SideTradeType : Worth(t) \in Int
<1> SUFFICES ASSUME NEW t \in SideTradeType PROVE Worth(t) \in Int
  OBVIOUS
<1>1. t.paid \in Int /\ t.size \in Int /\ t.price \in Int /\ t.fee \in Int
  BY DEF SideTradeType, SideTradeRow
<1>2. \A a, b, c, d \in Int : a - 100 * b * c - d \in Int
  OBVIOUS
<1>. QED
  BY <1>1, <1>2 DEF Worth

\* The trades are rows, and their worths add up.
LEMMA TradesType ==
  ASSUME NEW rows \in Seq(SideTradeType)
  PROVE  /\ Len(rows) \in Nat /\ DOMAIN rows = 1..Len(rows) /\ IsFiniteSet(DOMAIN rows)
         /\ \A i \in DOMAIN rows : rows[i] \in SideTradeType
         /\ IsSummable([i \in DOMAIN rows |-> Worth(rows[i])])
<1>1. /\ Len(rows) \in Nat /\ DOMAIN rows = 1..Len(rows)
      /\ \A i \in 1..Len(rows) : rows[i] \in SideTradeType
  BY SequenceType
<1>2. IsFiniteSet(1..Len(rows))
  <2>1. Len(rows) \in Int /\ 1 \in Int
    BY <1>1
  <2>. QED
    BY <2>1, FirstNumbers
<1>. QED
  BY <1>1, <1>2, WorthType DEF IsSummable

\* A trade leaves for what its settlement or its entry price pays, never less than
\* nothing, and keeps everything else.
LEMMA ExitedType ==
  ASSUME trades \in Seq(SideTradeType), NEW i \in DOMAIN trades
  PROVE  LET t == trades[i]
             e == Exited(i)
         IN  /\ e \in SideTradeType /\ e.signal = t.signal
             /\ i \in Settled => e.reason = "market_resolved" /\ e.exit = Redeemed(t.token)
             /\ i \in Expired => e.reason = "signal_expired"
             /\ i \in Settled \cup Expired =>
                  e.paid \in Nat /\ Worth(e) = Worth(t) + e.paid /\ t.reason = "none"
             /\ i \notin Settled \cup Expired => e = t
<1> DEFINE t == trades[i]
           fee == TakerFee(t.price, t.size, V2Fee)
<1>1. t \in SideTradeType
  BY TradesType
<1>2. /\ t.price \in Nat \ {0} /\ t.size \in Nat \ {0} /\ t.fee \in Int /\ t.paid \in Int
  BY <1>1 DEF SideTradeType, SideTradeRow
<1>3. fee \in Int /\ fee <= 100 * t.size * t.price
  <2>1. V2Fee \in 0..100 /\ t.price \in Nat /\ t.size \in Nat
    BY <1>2, V2Constants
  <2>. QED
    BY <2>1, FeeWithinValue
<1>4. Redeemed(t.token) \in {0, 100}
  BY DEF Redeemed
<1>. HIDE DEF fee
<1>5. Settled \cap Expired = {}
  BY DEF Expired
<1>6. i \in Settled \cup Expired => t.exit = Unsettled /\ t.reason = "none" /\ t.paid = 0
  <2>1. i \in Settled \cup Expired => i \in OpenTrades
    BY DEF Settled, Expired
  <2>. QED
    BY <1>1, <2>1 DEF OpenTrades, SideTradeType
<1> DEFINE LeavesWith(x, r, p) == [t EXCEPT !.exit = x, !.reason = r, !.paid = p]
<1>. HIDE DEF t
<1>7. ASSUME NEW x \in Int, NEW p \in Nat, NEW r \in {"market_resolved", "signal_expired"},
             x # Unsettled, r = "market_resolved" => x \in {0, 100}, t.paid = 0
      PROVE  /\ LeavesWith(x, r, p) \in SideTradeType /\ LeavesWith(x, r, p).signal = t.signal
             /\ LeavesWith(x, r, p).reason = r /\ LeavesWith(x, r, p).exit = x /\ LeavesWith(x, r, p).paid = p
             /\ Worth(LeavesWith(x, r, p)) = Worth(t) + p
  <2> DEFINE e == LeavesWith(x, r, p)
  <2>0. t \in SideTradeRow
    BY <1>1 DEF SideTradeType
  <2>1. /\ e \in SideTradeRow
        /\ e.signal = t.signal /\ e.reason = r /\ e.exit = x /\ e.paid = p
        /\ e.size = t.size /\ e.price = t.price /\ e.fee = t.fee
    <3>1. e \in SideTradeRow
      <4>1. p \in Int /\ r \in {"none", "market_resolved", "signal_expired"}
        OBVIOUS
      <4>2. \A v \in SideTradeRow, y \in {"none", "market_resolved", "signal_expired"}, z \in Int :
              [v EXCEPT !.exit = x, !.reason = y, !.paid = z] \in SideTradeRow
        BY DEF SideTradeRow
      <4>. QED
        BY <2>0, <4>1, <4>2
    <3>. QED
      BY <2>0, <3>1 DEF SideTradeRow
  <2>2. 100 * t.size * t.price \in Int
    BY <1>2
  <2>. HIDE DEF e
  <2>3. Worth(e) = Worth(t) + p
    BY <1>2, <1>7, <2>1, <2>2 DEF Worth
  <2>4. e \in SideTradeType
    BY <1>7, <2>1 DEF SideTradeType
  <2>. QED
    BY <2>1, <2>3, <2>4 DEF e
<1>8. CASE i \in Settled
  <2> DEFINE x == Redeemed(t.token)
             p == 100 * t.size * x
  <2>1. Exited(i) = LeavesWith(x, "market_resolved", p)
    BY <1>5, <1>8 DEF Exited, t
  <2>2. p \in Nat /\ x \in Int /\ x # Unsettled /\ x \in {0, 100}
    BY <1>2, <1>4 DEF Unsettled
  <2>. HIDE DEF x, p, LeavesWith
  <2>4. /\ Exited(i) \in SideTradeType /\ Exited(i).signal = t.signal
        /\ Exited(i).reason = "market_resolved" /\ Exited(i).exit = x
        /\ Exited(i).paid = p /\ Worth(Exited(i)) = Worth(t) + p
    BY <1>6, <1>7, <1>8, <2>1, <2>2
  <2>. QED
    BY <1>5, <1>6, <1>8, <2>2, <2>4 DEF t, x
<1>9. CASE i \in Expired
  <2> DEFINE p == 100 * t.size * t.price - fee
  <2>1. i \notin Settled
    BY <1>5, <1>9
  <2>2. Exited(i) = LeavesWith(t.price, "signal_expired", p)
    BY <1>9, <2>1 DEF Exited, fee, t
  <2>3. p \in Nat /\ t.price \in Int /\ t.price # Unsettled
    <3>1. 100 * t.size * t.price \in Int
      BY <1>2
    <3>. QED
      BY <1>2, <1>3, <3>1 DEF Unsettled
  <2>. HIDE DEF p, LeavesWith
  <2>4. /\ Exited(i) \in SideTradeType /\ Exited(i).signal = t.signal
        /\ Exited(i).reason = "signal_expired"
        /\ Exited(i).paid = p /\ Worth(Exited(i)) = Worth(t) + p
    BY <1>6, <1>7, <1>9, <2>2, <2>3
  <2>. QED
    BY <1>6, <1>9, <2>1, <2>3, <2>4 DEF t
<1>10. CASE i \notin Settled \cup Expired
  <2>1. Exited(i) = t
    BY <1>10 DEF Exited, t
  <2>. QED
    BY <1>1, <1>10, <2>1 DEF t
<1>. QED
  BY <1>8, <1>9, <1>10

\* The portfolio starts with its bankroll and without signals.
LEMMA V2InitOK == V2Init => V2IInv
<1> SUFFICES ASSUME V2Init PROVE V2IInv
  OBVIOUS
<1>1. FeedOK
  BY DEF V2Init, FeedInit, FeedOK
<1>2. now = 0 /\ signals = <<>> /\ trades = <<>> /\ v2Cash = V2Start /\ v2 = NoTxn
  BY DEF V2Init
<1>3. /\ signals \in Seq(SignalType) /\ trades \in Seq(SideTradeType)
      /\ DOMAIN trades = {} /\ DOMAIN signals = {}
  BY <1>2
<1>4. SumFunction([i \in DOMAIN trades |-> Worth(trades[i])]) = 0
  BY <1>3, TotalEmpty
<1>5. V2Start \in Nat
  BY V2Constants
<1>. QED
  BY <1>1, <1>2, <1>3, <1>4, <1>5 DEF V2IInv, V2ScanOK, LinksOK

\* What leaves the tables and the bankroll alone keeps the invariant.
LEMMA ScanKeepsV2 ==
  V2IInv /\ UNCHANGED <<signals, trades, v2Cash>> /\ FeedOK' /\ now' \in Nat /\ V2ScanOK(v2')
    => V2IInv'
BY DEF V2IInv

\* Settling and expiring trades credits exactly what they pay, and fills the
\* outcome of the signals whose trades settled, and of no others.
LEMMA ResolveTradesKeepsV2 == V2IInv /\ ResolveTrades /\ UNCHANGED feedVars => V2IInv'
<1> SUFFICES ASSUME V2IInv, ResolveTrades, UNCHANGED feedVars PROVE V2IInv'
  OBVIOUS
<1> DEFINE n == Len(trades)
           Leaving == Settled \cup Expired
           f == [i \in DOMAIN trades |-> Worth(trades[i])]
           g == [i \in Leaving |-> (trades'[i]).paid]
           h == [i \in DOMAIN trades' |-> Worth((trades'[i]))]
<1>1. /\ trades' = [i \in DOMAIN trades |-> Exited(i)]
      /\ signals' = [i \in DOMAIN signals |-> Filled(i)]
      /\ v2Cash' = v2Cash + SumFunction(g)
      /\ v2' = [at |-> now, todo |-> {m \in Scanned : ~closed[m]}, found |-> <<>>]
      /\ now' = now
  BY DEF ResolveTrades
<1>2. /\ n \in Nat /\ DOMAIN trades = 1..n /\ IsFiniteSet(DOMAIN trades)
      /\ \A i \in DOMAIN trades : trades[i] \in SideTradeType
      /\ IsSummable(f) /\ SumFunction(f) \in Int
  BY TradesType, TotalInt DEF V2IInv
<1>3. Leaving \subseteq DOMAIN trades
  BY DEF Settled, Expired, OpenTrades
<1>4. \A i \in DOMAIN trades :
        /\ Exited(i) \in SideTradeType /\ Exited(i).signal = trades[i].signal
        /\ i \in Settled => Exited(i).reason = "market_resolved"
                            /\ Exited(i).exit = Redeemed(trades[i].token)
        /\ i \in Expired => Exited(i).reason = "signal_expired"
        /\ i \in Leaving =>
             /\ Exited(i).paid \in Nat /\ Worth(Exited(i)) = Worth(trades[i]) + Exited(i).paid
             /\ trades[i].reason = "none"
        /\ i \notin Leaving => Exited(i) = trades[i]
  BY ExitedType DEF V2IInv
<1>. HIDE DEF Leaving
<1>5. trades' \in Seq(SideTradeType) /\ DOMAIN trades' = DOMAIN trades
  <2>1. trades' \in [1..n -> SideTradeType]
    BY <1>1, <1>2, <1>4
  <2>. HIDE DEF n
  <2>. QED
    BY <1>2, <2>1
<1>6. /\ DOMAIN f = DOMAIN trades /\ DOMAIN h = DOMAIN trades /\ DOMAIN g = Leaving
      /\ \A i \in Leaving : g[i] \in Nat /\ h[i] = f[i] + g[i]
      /\ \A i \in DOMAIN trades \ Leaving : h[i] = f[i]
      /\ \A i \in DOMAIN trades : f[i] \in Int /\ h[i] \in Int
  <2>1. \A i \in DOMAIN trades : trades'[i] = Exited(i)
    BY <1>1
  <2>2. DOMAIN h = DOMAIN trades
    BY <1>5
  <2>3. \A i \in DOMAIN trades : h[i] = Worth(Exited(i)) /\ f[i] = Worth(trades[i])
    BY <2>1, <2>2
  <2>4. \A i \in Leaving : g[i] = Exited(i).paid
    BY <1>3, <2>1
  <2>5. \A i \in DOMAIN trades : f[i] \in Int /\ h[i] \in Int
    BY <1>2, <1>4, <2>3, WorthType
  <2>. HIDE DEF f, g, h
  <2>6. \A i \in Leaving : g[i] \in Nat /\ h[i] = f[i] + g[i]
    BY <1>3, <1>4, <2>3, <2>4
  <2>7. \A i \in DOMAIN trades \ Leaving : h[i] = f[i]
    BY <1>4, <2>3
  <2>. QED
    BY <2>2, <2>5, <2>6, <2>7 DEF f, g
<1>. HIDE DEF f, g
<1>7. v2Cash' \in Nat /\ v2Cash' = V2Start + SumFunction(h)
  <2>. HIDE DEF h
  <2>1. IsFiniteSet(Leaving)
    BY <1>2, <1>3, FS_Subset
  <2>2. IsSummable(g) /\ IsSummable(h) /\ \A i \in DOMAIN g : g[i] >= 0
    BY <1>2, <1>6, <2>1 DEF IsSummable
  <2>3. \A i \in DOMAIN h : h[i] = IF i \in DOMAIN g THEN f[i] + g[i] ELSE f[i]
    BY <1>6
  <2>4. IsRaised(f, g, h)
    BY <1>2, <1>3, <1>6, <2>2, <2>3 DEF IsRaised
  <2>5. SumFunction(h) = SumFunction(f) + SumFunction(g) /\ SumFunction(g) \in Nat
    BY <2>2, <2>4, TotalRaised, TotalNat
  <2>6. v2Cash \in Nat /\ v2Cash = V2Start + SumFunction(f) /\ V2Start \in Nat
    BY V2Constants DEF V2IInv, f
  <2>. QED
    BY <1>1, <1>2, <2>5, <2>6
<1>8. /\ LinksOK(signals, trades) /\ \A t \in DOMAIN trades : trades[t].signal \in DOMAIN signals
  BY DEF V2IInv, LinksOK
<1>9. ASSUME NEW i \in DOMAIN signals, NEW t \in DOMAIN trades, trades[t].signal = i
      PROVE  Filled(i).outcome =
               IF Exited(t).reason = "market_resolved" THEN Exited(t).exit ELSE NotFilled
  <2> DEFINE mine == {u \in Settled : trades[u].signal = i}
  <2>1. mine \subseteq {t}
    BY <1>3, <1>8, <1>9 DEF LinksOK, Leaving
  <2>2. signals[i].outcome =
          IF trades[t].reason = "market_resolved" THEN trades[t].exit ELSE NotFilled
    BY <1>8, <1>9 DEF LinksOK
  <2>3. CASE t \in Settled
    <3>1. mine = {t} /\ mine # {}
      BY <1>9, <2>1, <2>3
    <3>2. Max(mine) = t
      <4>1. t \in Int
        BY <1>2
      <4>2. IsFiniteSet({t}) /\ {t} \in SUBSET Int /\ {t} # {}
        BY <4>1, FS_Singleton
      <4>3. Max({t}) \in {t}
        BY <4>2, GreatestOfFinite
      <4>. QED
        BY <3>1, <4>3
    <3>3. signals[i].outcome = NotFilled
      BY <1>4, <2>2, <2>3 DEF Leaving
    <3>4. Filled(i) = [signals[i] EXCEPT !.outcome = Redeemed(trades[t].token)]
      BY <3>1, <3>2, <3>3 DEF Filled
    <3>5. signals[i] \in SignalType
      BY SequenceType DEF V2IInv
    <3>6. Filled(i).outcome = Redeemed(trades[t].token)
      BY <3>4, <3>5 DEF SignalType
    <3>. QED
      BY <1>4, <2>3, <3>6
  <2>4. CASE t \notin Settled
    <3>1. mine = {}
      BY <2>1, <2>4
    <3>2. Filled(i) = signals[i]
      BY <3>1 DEF Filled
    <3>3. CASE t \in Expired
      BY <1>4, <2>2, <3>2, <3>3 DEF Leaving
    <3>4. CASE t \notin Expired
      <4>1. Exited(t) = trades[t]
        BY <1>4, <2>4, <3>4 DEF Leaving
      <4>. QED
        BY <2>2, <3>2, <4>1
    <3>. QED
      BY <3>3, <3>4
  <2>. QED
    BY <2>3, <2>4
<1>10. ASSUME NEW i \in DOMAIN signals, \A t \in DOMAIN trades : trades[t].signal # i
       PROVE  Filled(i).outcome = NotFilled
  <2>1. {u \in Settled : trades[u].signal = i} = {}
    BY <1>3, <1>10 DEF Leaving
  <2>2. Filled(i) = signals[i]
    BY <2>1 DEF Filled
  <2>. QED
    BY <1>8, <1>10, <2>2 DEF LinksOK
<1>11. signals' \in Seq(SignalType) /\ DOMAIN signals' = DOMAIN signals
  <2>1. Len(signals) \in Nat /\ DOMAIN signals = 1..Len(signals)
        /\ \A i \in 1..Len(signals) : signals[i] \in SignalType
    BY SequenceType DEF V2IInv
  <2>2. \A i \in DOMAIN signals : Filled(i) \in SignalType
    <3>1. \A t : Redeemed(t) \in {NotFilled, 0, 100}
      BY DEF Redeemed
    <3>2. \A s \in SignalType, o \in {NotFilled, 0, 100} : [s EXCEPT !.outcome = o] \in SignalType
      BY DEF SignalType
    <3>. QED
      BY <2>1, <3>1, <3>2 DEF Filled
  <2> DEFINE k == Len(signals)
  <2>3. signals' \in [1..k -> SignalType]
    BY <1>1, <2>1, <2>2
  <2>4. k \in Nat
    BY <2>1
  <2>. HIDE DEF k
  <2>5. signals' \in Seq(SignalType)
    BY <2>3, <2>4
  <2>. QED
    BY <1>1, <2>5
<1>12. LinksOK(signals', trades')
  <2>1. \A t \in DOMAIN trades : trades'[t] = Exited(t) /\ trades'[t].signal = trades[t].signal
    BY <1>1, <1>4
  <2>2. \A i \in DOMAIN signals : signals'[i] = Filled(i)
    BY <1>1
  <2>3. \A t \in DOMAIN trades' : trades'[t].signal \in DOMAIN signals'
    BY <1>5, <1>8, <1>11, <2>1
  <2>4. \A t, u \in DOMAIN trades' : trades'[t].signal = trades'[u].signal => t = u
    BY <1>5, <1>8, <2>1 DEF LinksOK
  <2>5. \A t \in DOMAIN trades' :
          signals'[trades'[t].signal].outcome =
            IF trades'[t].reason = "market_resolved" THEN trades'[t].exit ELSE NotFilled
    BY <1>5, <1>8, <1>9, <2>1, <2>2
  <2>6. \A i \in DOMAIN signals' :
          (\A t \in DOMAIN trades' : trades'[t].signal # i) => signals'[i].outcome = NotFilled
    BY <1>5, <1>10, <1>11, <2>1, <2>2
  <2>. QED
    BY <2>3, <2>4, <2>5, <2>6 DEF LinksOK
<1>13. FeedOK' /\ now' \in Nat /\ V2ScanOK(v2')
  BY <1>1 DEF V2IInv, FeedOK, feedVars, V2ScanOK
<1>. QED
  BY <1>5, <1>7, <1>11, <1>12, <1>13 DEF V2IInv

\* What a market may show is a signal without an outcome, a book and positions.
LEMMA DivergenceType ==
  ASSUME NEW m \in Scanned, NEW d \in Divergences
  PROVE  [signal |-> SignalRow(m, d.p, d.price), asks |-> d.asks, rows |-> d.rows] \in FoundType
<1>1. PICK rows \in {r \in Exposures : SumFunction(CapClusterWeights(Weights(r))) > 0 /\ Confident(r)},
           book \in V2Books :
        d = [p |-> PConsensus(rows), price |-> PMarket(book), asks |-> book.asks, rows |-> rows]
  BY DEF Divergences
<1>2. PConsensus(rows) \in Int
  BY <1>1, PConsensusType
<1>3. /\ book.bid \in Int /\ book.asks \in Seq([price : 1..99, size : Nat \ {0}])
      /\ book.asks # <<>>
  BY V2Constants
<1>4. book.asks \in Seq(Levels) /\ book.asks # <<>>
  BY <1>3 DEF Levels
<1>5. PMarket(book) \in Int
  <2>1. Len(book.asks) \in Nat /\ Len(book.asks) > 0
    BY <1>4, SequenceType
  <2>2. 1 \in 1..Len(book.asks)
    BY <2>1
  <2>3. book.asks[1].price \in 1..99
    BY <1>4, <2>2, LevelType
  <2>4. \A x \in Int, y \in 1..99 : (x + y) \div 2 \in Int
    OBVIOUS
  <2>5. (book.bid + book.asks[1].price) \div 2 \in Int
    BY <1>3, <2>3, <2>4
  <2>. QED
    BY <2>5 DEF PMarket
<1>6. SignalRow(m, d.p, d.price) \in {s \in SignalType : s.outcome = NotFilled}
  BY <1>1, <1>2, <1>5 DEF SignalRow, SignalType
<1>. QED
  BY <1>1, <1>4, <1>6 DEF FoundType

\* The stake is a number.
LEMMA StakeType ==
  ASSUME NEW signal \in SignalType, NEW asks \in Seq(Levels), asks # <<>>, v2Cash \in Nat
  PROVE  TargetNotionalV2(signal, asks) \in Nat
<1> DEFINE kelly == SizeKellyPosition(v2Cash, signal.p, asks[1].price, KellyConfig)
<1>1. asks[1].price \in Nat
  <2>1. Len(asks) \in Nat /\ Len(asks) > 0
    BY SequenceType
  <2>2. 1 \in 1..Len(asks)
    BY <2>1
  <2>3. asks[1].price \in 1..99
    BY <2>2, LevelType
  <2>4. \A x \in 1..99 : x \in Nat
    OBVIOUS
  <2>. QED
    BY <2>3, <2>4
<1>2. signal.p \in Int
  BY DEF SignalType
<1>3. /\ KellyConfig.kellyFeePct \in Nat /\ KellyConfig.kellyFractionPct \in Nat
      /\ KellyConfig.maxPositionPct \in Nat /\ FixedPct \in Nat
  BY V2Constants
<1>4. kelly \in Nat \cup {Skip}
  BY <1>1, <1>2, <1>3, KellyType
<1>5. Pct(FixedPct, v2Cash) \in Nat
  BY <1>3, PctNat
<1>6. TargetNotionalV2(signal, asks)
        = IF KellyGatePasses /\ kelly # Skip THEN kelly ELSE Pct(FixedPct, v2Cash)
  BY DEF TargetNotionalV2
<1>. HIDE DEF kelly
<1>. QED
  BY <1>4, <1>5, <1>6

\* A stored signal has no trade yet, and a trade's signal is its own.
LEMMA EnterSignalKeepsV2 == V2IInv /\ EnterSignal /\ UNCHANGED feedVars => V2IInv'
<1> SUFFICES ASSUME V2IInv, EnterSignal, UNCHANGED feedVars PROVE V2IInv'
  OBVIOUS
<1> DEFINE s == v2.found[1].signal
           asks == v2.found[1].asks
           n == Len(trades)
           k == Len(signals)
<1>1. /\ v2 # NoTxn /\ v2.found # <<>> /\ v2' = [v2 EXCEPT !.found = <<>>] /\ now' = now
  BY DEF EnterSignal
<1>2. /\ v2.at \in Nat /\ s \in SignalType /\ s.outcome = NotFilled
      /\ asks \in Seq(Levels) /\ asks # <<>>
  BY <1>1 DEF V2IInv, V2ScanOK, FoundType
<1>3. FeedOK' /\ now' \in Nat /\ V2ScanOK(v2')
  <2>1. v2'.at = v2.at /\ v2'.found = <<>>
    BY <1>1
  <2>. QED
    BY <1>1, <1>2, <2>1 DEF V2IInv, FeedOK, feedVars, V2ScanOK
<1>4. CASE HasOpenTrade(s.market)
  <2>1. UNCHANGED <<signals, trades, v2Cash>>
    BY <1>4 DEF EnterSignal
  <2>. QED
    BY <1>3, <2>1, ScanKeepsV2
<1>5. CASE ~HasOpenTrade(s.market)
  <2> DEFINE notional == TargetNotionalV2(s, asks)
             price == WalkTheBook(asks, notional, KellyConfig)
             size == notional \div (100 * price)
             fee == TakerFee(price, size, V2Fee)
             row == [TradeRow(k + 1, s.market, price, size, fee) EXCEPT !.at = v2.at]
             Entered == /\ trades' = Append(trades, row)
                        /\ v2Cash' = v2Cash - Cost(price, size)
                        /\ notional > 0 /\ price # NoPrice /\ size > 0
                        /\ Cost(price, size) <= v2Cash
  <2>1. signals' = Append(signals, s) /\ (Entered \/ UNCHANGED <<trades, v2Cash>>)
    <3>1. PICK t \in {s} :
            IF HasOpenTrade(t.market) THEN UNCHANGED <<signals, trades, v2Cash>>
            ELSE /\ signals' = Append(signals, t)
                 /\ \E stake \in {TargetNotionalV2(t, asks)} :
                    \E paid \in {WalkTheBook(asks, stake, KellyConfig)} :
                      LET bought == stake \div (100 * paid)
                      IN  IF /\ t.p > t.price /\ stake > 0 /\ paid # NoPrice
                             /\ bought > 0 /\ Cost(paid, bought) <= v2Cash
                            THEN /\ trades' = Append(trades,
                                      [TradeRow(Len(signals) + 1, t.market, paid, bought,
                                                TakerFee(paid, bought, V2Fee)) EXCEPT !.at = v2.at])
                                 /\ v2Cash' = v2Cash - Cost(paid, bought)
                            ELSE UNCHANGED <<trades, v2Cash>>
      BY DEF EnterSignal
    <3>2. t = s
      OBVIOUS
    <3>. HIDE DEF s, asks
    <3>3. signals' = Append(signals, s)
      BY <1>5, <3>1, <3>2
    <3>4. Entered \/ UNCHANGED <<trades, v2Cash>>
      <4>1. \/ /\ notional > 0 /\ price # NoPrice /\ size > 0 /\ Cost(price, size) <= v2Cash
               /\ trades' = Append(trades,
                    [TradeRow(Len(signals) + 1, s.market, price, size,
                              TakerFee(price, size, V2Fee)) EXCEPT !.at = v2.at])
               /\ v2Cash' = v2Cash - Cost(price, size)
            \/ UNCHANGED <<trades, v2Cash>>
        BY <1>5, <3>1, <3>2
      <4>. QED
        BY <4>1
    <3>. QED
      BY <3>3, <3>4
  <2>2. /\ k \in Nat /\ DOMAIN signals = 1..k /\ signals \in Seq(SignalType)
        /\ \A i \in 1..k : signals[i] \in SignalType
    BY SequenceType DEF V2IInv
  <2>3. /\ n \in Nat /\ DOMAIN trades = 1..n /\ trades \in Seq(SideTradeType)
        /\ \A t \in 1..n : trades[t] \in SideTradeType
    BY TradesType DEF V2IInv
  <2>4. LinksOK(signals, trades) /\ \A t \in 1..n : trades[t].signal \in 1..k
    BY <2>2, <2>3 DEF V2IInv, LinksOK
  <2>5. /\ signals' \in Seq(SignalType) /\ DOMAIN signals' = 1..(k + 1)
        /\ \A i \in 1..k : signals'[i] = signals[i]
        /\ signals'[k + 1] = s
    <3>. HIDE DEF s
    <3>1. /\ Append(signals, s) \in Seq(SignalType) /\ Len(Append(signals, s)) = k + 1
          /\ \A i \in 1..k : Append(signals, s)[i] = signals[i]
          /\ Append(signals, s)[k + 1] = s
      BY <1>2, <2>2, AppendProperties
    <3>2. DOMAIN Append(signals, s) = 1..(k + 1)
      BY <3>1, SequenceType
    <3>. QED
      BY <2>1, <3>1, <3>2
  <2>6. CASE UNCHANGED <<trades, v2Cash>>
    <3>. HIDE DEF n, k, s, asks
    <3>1. LinksOK(signals', trades)
      <4>1. \A t \in DOMAIN trades : trades[t].signal \in 1..k
        BY <2>3, <2>4
      <4>2. \A i \in 1..k : i \in 1..(k + 1)
        BY <2>2
      <4>3. \A i \in 1..(k + 1) : i \in 1..k \/ i = k + 1
        BY <2>2
      <4>. QED
        BY <1>2, <2>2, <2>4, <2>5, <4>1, <4>2, <4>3 DEF LinksOK
    <3>. QED
      BY <1>3, <2>5, <2>6, <3>1 DEF V2IInv
  <2>7. CASE Entered
    <3>1. v2Cash \in Nat /\ V2Start \in Nat /\ V2Fee \in Int
      BY V2Constants DEF V2IInv
    <3>2. notional \in Nat
      BY <1>2, <3>1, StakeType
    <3>. HIDE DEF notional
    <3>3. price \in Nat \ {0}
      <4>1. price \in (Nat \ {0}) \cup {NoPrice}
        BY <1>2, <3>2, WalkType
      <4>. QED
        BY <2>7, <4>1
    <3>. HIDE DEF price
    <3>4. size \in Nat \ {0}
      <4>1. \A a \in Nat, b \in Nat \ {0} : a \div (100 * b) \in Int
        OBVIOUS
      <4>2. size \in Int
        BY <3>2, <3>3, <4>1
      <4>. QED
        BY <2>7, <4>2
    <3>. HIDE DEF size
    <3>5. fee \in Int /\ Cost(price, size) = 100 * size * price + fee
      <4>1. price \in Int /\ size \in Int
        BY <3>3, <3>4
      <4>2. fee \in Int
        BY <3>1, <4>1, TakerFeeType
      <4>. QED
        BY <4>2 DEF Cost
    <3>. HIDE DEF fee
    <3>6. s.market \in Markets
      BY <1>2, V2Constants DEF SignalType
    <3>7. /\ row \in SideTradeType /\ row.signal = k + 1 /\ row.reason = "none"
          /\ row.paid = 0 /\ row.size = size /\ row.price = price /\ row.fee = fee
      <4>0. row = [signal |-> k + 1, token |-> [market |-> s.market, side |-> "yes"],
                   price |-> price, size |-> size, fee |-> fee, at |-> v2.at,
                   exit |-> Unsettled, paid |-> 0, reason |-> "none"]
        BY DEF TradeRow
      <4>1. k + 1 \in Nat \ {0} /\ Unsettled \in Int
        BY <2>2 DEF Unsettled
      <4>. HIDE DEF row, s, k
      <4>2. row \in SideTradeRow
        BY <1>2, <3>3, <3>4, <3>5, <3>6, <4>0, <4>1 DEF SideTradeRow
      <4>. QED
        BY <4>0, <4>2 DEF SideTradeType
    <3>8. Worth(row) = - Cost(price, size) /\ Cost(price, size) \in Int
      <4>1. 100 * size * price \in Int
        BY <3>3, <3>4
      <4>. HIDE DEF row
      <4>. QED
        BY <3>5, <3>7, <4>1 DEF Worth
    <3>. HIDE DEF row, s
    <3>9. /\ trades' \in Seq(SideTradeType) /\ DOMAIN trades' = 1..(n + 1)
          /\ \A t \in 1..n : trades'[t] = trades[t]
          /\ trades'[n + 1] = row
      <4>1. /\ Append(trades, row) \in Seq(SideTradeType) /\ Len(Append(trades, row)) = n + 1
            /\ \A i \in 1..n : Append(trades, row)[i] = trades[i]
            /\ Append(trades, row)[n + 1] = row
        BY <2>3, <3>7, AppendProperties
      <4>2. DOMAIN Append(trades, row) = 1..(n + 1)
        BY <4>1, SequenceType
      <4>. QED
        BY <2>7, <4>1, <4>2
    <3>10. /\ \A t \in 1..n : t \in 1..(n + 1) /\ t # n + 1
           /\ \A t \in 1..(n + 1) : t \in 1..n \/ t = n + 1
           /\ n + 1 \in 1..(n + 1)
      BY <2>3
    <3>11. /\ \A i \in 1..k : i \in 1..(k + 1) /\ i # k + 1
           /\ \A i \in 1..(k + 1) : i \in 1..k \/ i = k + 1
           /\ k + 1 \in 1..(k + 1)
      BY <2>2
    <3>12. /\ v2Cash' \in Nat
           /\ v2Cash' = V2Start + SumFunction([i \in DOMAIN trades' |-> Worth((trades'[i]))])
      <4> DEFINE f == [i \in DOMAIN trades |-> Worth(trades[i])]
                 h == [i \in DOMAIN trades' |-> Worth((trades'[i]))]
      <4>1. /\ DOMAIN f = 1..n /\ DOMAIN h = 1..(n + 1)
            /\ (\A i \in 1..n : f[i] = h[i]) /\ h[n + 1] = Worth(row)
        <5>1. \A i \in 1..n : f[i] = h[i]
          BY <2>3, <3>9, <3>10
        <5>2. h[n + 1] = Worth(row)
          BY <3>9, <3>10
        <5>. QED
          BY <2>3, <3>9, <5>1, <5>2
      <4>2. IsSummable(h)
        BY <3>9, TradesType
      <4>3. v2Cash = V2Start + SumFunction(f)
        BY DEF V2IInv
      <4>. HIDE DEF f, h, n
      <4>4. DOMAIN f = DOMAIN h \ {n + 1}
        <5>1. \A t : t \in 1..n <=> t \in 1..(n + 1) /\ t # n + 1
          BY <3>10
        <5>. QED
          BY <4>1, <5>1
      <4>5. IsOneMore(f, h, n + 1)
        BY <3>10, <4>1, <4>2, <4>4 DEF IsOneMore
      <4>6. SumFunction(f) \in Int /\ SumFunction(h) = SumFunction(f) + h[n + 1]
        BY <4>5, TotalAdd
      <4>7. v2Cash' = v2Cash - Cost(price, size) /\ Cost(price, size) <= v2Cash
        BY <2>7
      <4>8. v2Cash' = V2Start + SumFunction(h)
        BY <3>1, <3>8, <4>1, <4>3, <4>6, <4>7
      <4>. QED
        BY <3>1, <3>8, <4>7, <4>8 DEF h
    <3>13. LinksOK(signals', trades')
      <4>. HIDE DEF n, k
      <4>1. \A t \in 1..(n + 1) : trades'[t].signal \in 1..(k + 1)
        BY <2>4, <3>7, <3>9, <3>10, <3>11
      <4>2. \A t, u \in 1..(n + 1) : trades'[t].signal = trades'[u].signal => t = u
        <5>1. \A t, u \in 1..n : trades[t].signal = trades[u].signal => t = u
          BY <2>3, <2>4 DEF LinksOK
        <5>2. \A t \in 1..n : trades'[t].signal # k + 1
          BY <2>4, <3>9, <3>11
        <5>. QED
          BY <3>7, <3>9, <3>10, <5>1, <5>2
      <4>3. \A t \in 1..(n + 1) :
              signals'[trades'[t].signal].outcome =
                IF trades'[t].reason = "market_resolved" THEN trades'[t].exit ELSE NotFilled
        <5>1. \A t \in 1..n :
                signals[trades[t].signal].outcome =
                  IF trades[t].reason = "market_resolved" THEN trades[t].exit ELSE NotFilled
          BY <2>3, <2>4 DEF LinksOK
        <5>2. \A t \in 1..n : signals'[trades'[t].signal] = signals[trades[t].signal]
          BY <2>4, <2>5, <3>9
        <5>3. signals'[trades'[n + 1].signal].outcome = NotFilled
          BY <1>2, <2>5, <3>7, <3>9
        <5>. QED
          BY <3>7, <3>9, <3>10, <5>1, <5>2, <5>3
      <4>4. \A i \in 1..(k + 1) :
              (\A t \in 1..(n + 1) : trades'[t].signal # i) => signals'[i].outcome = NotFilled
        <5>1. \A i \in 1..k :
                (\A t \in 1..n : trades[t].signal # i) => signals[i].outcome = NotFilled
          BY <2>2, <2>3, <2>4 DEF LinksOK
        <5>. QED
          BY <1>2, <2>5, <3>9, <3>10, <3>11, <5>1
      <4>. QED
        BY <2>5, <3>9, <4>1, <4>2, <4>3, <4>4 DEF LinksOK
    <3>. QED
      BY <1>3, <2>5, <3>9, <3>12, <3>13 DEF V2IInv
  <2>. HIDE DEF Entered
  <2>. QED
    BY <2>1, <2>6, <2>7
<1>. QED
  BY <1>4, <1>5

\* No step breaks the invariant.
LEMMA V2Step == V2IInv /\ [V2Next]_v2All => V2IInv'
<1> SUFFICES ASSUME V2IInv, [V2Next]_v2All PROVE V2IInv'
  OBVIOUS
<1>0. FeedOK /\ now \in Nat /\ V2ScanOK(v2)
  BY DEF V2IInv
<1>1. CASE Tick /\ UNCHANGED feedVars
  <2>1. UNCHANGED <<signals, trades, v2Cash>> /\ v2' = v2 /\ now' \in Nat
    BY <1>0, <1>1 DEF Tick
  <2>2. FeedOK' /\ V2ScanOK(v2')
    BY <1>0, <1>1, <2>1 DEF FeedOK, feedVars, V2ScanOK
  <2>. QED
    BY <2>1, <2>2, ScanKeepsV2
<1>2. CASE ResolveTrades /\ UNCHANGED feedVars
  BY <1>2, ResolveTradesKeepsV2
<1>3. ASSUME NEW m \in Scanned, ScanOneMarket(m), UNCHANGED feedVars PROVE V2IInv'
  <2>1. UNCHANGED <<now, signals, trades, v2Cash>> /\ v2 # NoTxn /\ v2.at \in Nat
    BY <1>0, <1>3 DEF ScanOneMarket, V2ScanOK
  <2>2. FeedOK' /\ now' \in Nat
    BY <1>0, <1>3, <2>1 DEF FeedOK, feedVars
  <2>3. \/ v2' = [v2 EXCEPT !.todo = @ \ {m}]
        \/ \E d \in Divergences :
             v2' = [v2 EXCEPT !.todo = @ \ {m},
                      !.found = <<[signal |-> SignalRow(m, d.p, d.price), asks |-> d.asks,
                                   rows |-> d.rows]>>]
    BY <1>3 DEF ScanOneMarket
  <2>4. CASE v2' = [v2 EXCEPT !.todo = @ \ {m}]
    <3>1. v2.found = <<>>
      BY <1>3 DEF ScanOneMarket
    <3>2. v2'.at = v2.at
      BY <2>4
    <3>3. v2'.found = v2.found
      BY <2>4
    <3>4. V2ScanOK(v2')
      BY <2>1, <3>1, <3>2, <3>3 DEF V2ScanOK
    <3>. QED
      BY <2>1, <2>2, <3>4, ScanKeepsV2
  <2>5. ASSUME NEW d \in Divergences,
               v2' = [v2 EXCEPT !.todo = @ \ {m},
                        !.found = <<[signal |-> SignalRow(m, d.p, d.price), asks |-> d.asks,
                                     rows |-> d.rows]>>]
        PROVE  V2IInv'
    <3> DEFINE found == [signal |-> SignalRow(m, d.p, d.price), asks |-> d.asks, rows |-> d.rows]
    <3>1. found \in FoundType
      BY DivergenceType
    <3>2. v2' = [v2 EXCEPT !.todo = @ \ {m}, !.found = <<found>>]
      BY <2>5
    <3>. HIDE DEF found
    <3>3. v2'.at = v2.at
      BY <3>2
    <3>4. v2' # NoTxn => v2'.found = <<>> \/ v2'.found[1] \in FoundType
      BY <3>1, <3>2
    <3>5. V2ScanOK(v2')
      BY <2>1, <3>3, <3>4 DEF V2ScanOK
    <3>. QED
      BY <2>1, <2>2, <3>5, ScanKeepsV2
  <2>. QED
    BY <2>3, <2>4, <2>5
<1>4. CASE EnterSignal /\ UNCHANGED feedVars
  BY <1>4, EnterSignalKeepsV2
<1>5. CASE FinishScan /\ UNCHANGED feedVars
  <2>1. UNCHANGED <<now, signals, trades, v2Cash>> /\ V2ScanOK(v2')
    BY <1>5 DEF FinishScan, V2ScanOK
  <2>2. FeedOK' /\ now' \in Nat
    BY <1>0, <1>5, <2>1 DEF FeedOK, feedVars
  <2>. QED
    BY <2>1, <2>2, ScanKeepsV2
<1>6. CASE FailV2 /\ UNCHANGED feedVars
  <2>1. UNCHANGED <<now, signals, trades, v2Cash>> /\ V2ScanOK(v2')
    BY <1>6 DEF FailV2, V2ScanOK
  <2>2. FeedOK' /\ now' \in Nat
    BY <1>0, <1>6, <2>1 DEF FeedOK, feedVars
  <2>. QED
    BY <2>1, <2>2, ScanKeepsV2
<1>7. CASE FeedNext /\ UNCHANGED <<v2Vars, events>>
  <2>1. FeedOK'
    BY <1>0, <1>7, FeedStep
  <2>2. UNCHANGED <<now, signals, trades, v2Cash>> /\ v2' = v2
    BY <1>7 DEF v2Vars
  <2>3. now' \in Nat /\ V2ScanOK(v2')
    BY <1>0, <2>2 DEF V2ScanOK
  <2>. QED
    BY <2>1, <2>2, <2>3, ScanKeepsV2
<1>8. CASE UNCHANGED v2All
  <2>1. UNCHANGED <<now, signals, trades, v2Cash>> /\ v2' = v2
    BY <1>8 DEF v2All, v2Vars
  <2>2. FeedOK' /\ now' \in Nat /\ V2ScanOK(v2')
    BY <1>0, <1>8, <2>1 DEF v2All, FeedOK, feedVars, V2ScanOK
  <2>. QED
    BY <2>1, <2>2, ScanKeepsV2
<1>. QED
  BY <1>1, <1>2, <1>3, <1>4, <1>5, <1>6, <1>7, <1>8 DEF V2Next, RunConsensusV2Scan

\* The inductive invariant of the consensus_prob portfolio.
THEOREM V2Invariance == V2Spec => []V2IInv
BY V2InitOK, V2Step, PTL DEF V2Spec

\* The bankroll is the start less every entry and its fee, plus what the exits
\* paid, and is never overdrawn.
THEOREM V2Balances == V2Spec => []V2Ledger
<1>1. V2IInv => V2Ledger
  BY DEF V2IInv, V2Ledger, Worth
<1>. QED
  BY <1>1, V2Invariance, PTL

\* A signal has an outcome exactly if its own trade was held until settlement.
THEOREM BrierRestsOnSettlements == V2Spec => []BrierIsOfSettlements
<1>1. V2IInv => BrierIsOfSettlements
  <2> SUFFICES ASSUME V2IInv, NEW i \in DOMAIN signals
               PROVE  LET mine == {t \in DOMAIN trades : trades[t].signal = i}
                      IN  /\ Cardinality(mine) <= 1
                          /\ signals[i].outcome # NotFilled
                               <=> \E t \in mine : trades[t].reason = "market_resolved"
                          /\ \A t \in mine : trades[t].reason = "market_resolved"
                               => signals[i].outcome = trades[t].exit
    BY DEF BrierIsOfSettlements
  <2> DEFINE mine == {t \in DOMAIN trades : trades[t].signal = i}
  <2>1. LinksOK(signals, trades) /\ \A t \in DOMAIN trades : trades[t] \in SideTradeType
    BY TradesType DEF V2IInv
  <2>2. CASE mine = {}
    <3>1. Cardinality(mine) = 0
      BY <2>2, FS_EmptySet
    <3>2. signals[i].outcome = NotFilled
      BY <2>1, <2>2 DEF LinksOK
    <3>. QED
      BY <2>2, <3>1, <3>2
  <2>3. ASSUME NEW t \in mine PROVE mine = {t}
    BY <2>1, <2>3 DEF LinksOK
  <2>4. ASSUME NEW t \in mine
        PROVE  /\ Cardinality(mine) = 1
               /\ signals[i].outcome # NotFilled <=> trades[t].reason = "market_resolved"
               /\ trades[t].reason = "market_resolved" => signals[i].outcome = trades[t].exit
    <3>1. mine = {t}
      BY <2>3, <2>4
    <3>2. trades[t].reason = "market_resolved" => trades[t].exit \in {0, 100}
      BY <2>1 DEF SideTradeType
    <3>3. Cardinality({t}) = 1
      BY FS_Singleton
    <3>4. signals[i].outcome =
            IF trades[t].reason = "market_resolved" THEN trades[t].exit ELSE NotFilled
      BY <2>1 DEF LinksOK
    <3>. QED
      BY <3>1, <3>2, <3>3, <3>4 DEF NotFilled
  <2>5. ASSUME NEW t \in mine
        PROVE  /\ Cardinality(mine) <= 1
               /\ signals[i].outcome # NotFilled
                    <=> \E u \in mine : trades[u].reason = "market_resolved"
               /\ \A u \in mine : trades[u].reason = "market_resolved"
                    => signals[i].outcome = trades[u].exit
    <3>1. mine = {t}
      BY <2>3, <2>5
    <3>2. /\ Cardinality(mine) = 1
          /\ signals[i].outcome # NotFilled <=> trades[t].reason = "market_resolved"
          /\ trades[t].reason = "market_resolved" => signals[i].outcome = trades[t].exit
      BY <2>4, <2>5
    <3>. HIDE DEF mine
    <3>. QED
      BY <3>1, <3>2
  <2>. HIDE DEF mine
  <2>6. mine = {} \/ \E t \in mine : TRUE
    OBVIOUS
  <2>. QED
    BY <2>2, <2>5, <2>6 DEF mine
<1>. QED
  BY <1>1, V2Invariance, PTL

\* No cluster that an accepted signal counts exceeds its share of the capped total,
\* unless so few have an opinion that all count alike.
THEOREM CapIsHeld == V2Spec => []NoClusterDominates
<1>1. V2IInv => NoClusterDominates
  <2> SUFFICES ASSUME V2IInv, v2 # NoTxn, v2.found # <<>>
               PROVE  CapHolds(CapClusterWeights(Weights(v2.found[1].rows)))
    BY DEF NoClusterDominates, CapHolds
  <2> DEFINE rows == v2.found[1].rows
  <2>1. rows \in Exposures
    BY DEF V2IInv, V2ScanOK, FoundType
  <2>2. IsFiniteSet(Opinions(rows)) /\ Weights(rows) \in [Opinions(rows) -> Nat]
    BY <2>1, WeightsType
  <2>. QED
    BY <2>2, CapIsKept
<1>. QED
  BY <1>1, V2Invariance, PTL
=============================================================================
