---------------------------- MODULE PricingProofs ----------------------------
(***************************************************************************)
(* Facts about the pricing and sizing functions of PaperPricing and        *)
(* PaperRisk that do not depend on whose book, order or configuration they *)
(* are applied to: percentages and quotients, the walk of an order book,   *)
(* the fee and Kelly's stake.  The proofs about the three portfolios that  *)
(* trade with these functions rest on them.                                *)
(***************************************************************************)
EXTENDS PaperPricing, Sums, SequenceTheorems

-----------------------------------------------------------------------------
(***************************************************************************)
(* Numbers.                                                                *)
(***************************************************************************)

\* A non-empty set of naturals has a least member.
LEMMA LeastOfNaturals ==
  ASSUME NEW S \in SUBSET Nat, S # {}
  PROVE  Least(S) \in S /\ \A y \in S : Least(S) <= y
<1> DEFINE R == OpToRel(<, Nat)
<1>1. PICK x \in S : \A y \in S : <<y, x>> \notin R
  <2>. HIDE DEF R
  <2>. QED
    BY NatLessThanWellFounded, WFMin DEF R
<1>2. ASSUME NEW y \in S, y < x PROVE FALSE
  <2>1. <<y, x>> \in R
    BY <1>2 DEF OpToRel
  <2>. QED
    BY <1>1, <2>1
<1>3. \A y \in S : x <= y
  BY <1>2
<1>. QED
  BY <1>3 DEF Least

\* A percentage of an amount.
LEMMA PctType == \A p \in Nat, amount \in Int : Pct(p, amount) \in Int
<1>1. \A p \in Nat, amount \in Int : p * amount \in Int
  OBVIOUS
<1>. QED
  BY <1>1 DEF Pct

\* A percentage of a natural number.
LEMMA PctNat == \A p \in Nat, amount \in Nat : Pct(p, amount) \in Nat
<1>1. \A p \in Nat, amount \in Nat : p * amount \in Nat
  OBVIOUS
<1>. QED
  BY <1>1 DEF Pct

\* A quotient is no larger than what is divided.
LEMMA QuotientBound ==
  ASSUME NEW a \in Nat, NEW b \in 1..99
  PROVE  (10 * a) \div b \in Nat /\ (10 * a) \div b <= 10 * a
<1> DEFINE q == (10 * a) \div b
<1>1. q \in Int /\ b * q <= 10 * a /\ 10 * a < b * (q + 1)
  OBVIOUS
<1>. HIDE DEF q
<1>2. q >= 0
  <2>1. CASE q <= -1
    <3>1. b * (q + 1) <= 0
      BY <1>1, <2>1
    <3>. QED
      BY <1>1, <3>1
  <2>. QED
    BY <1>1, <2>1
<1>3. b * q >= q
  BY <1>1, <1>2
<1>. QED
  BY <1>1, <1>2, <1>3 DEF q

\* A quotient of naturals is a natural.
LEMMA QuotientOfProduct ==
  ASSUME NEW x \in Nat, NEW y \in Nat, NEW b \in Nat, b > 0
  PROVE  (x * y) \div b \in Nat
<1> DEFINE a == x * y
           q == a \div b
<1>1. a \in Nat
  OBVIOUS
<1>. HIDE DEF a
<1>2. q \in Int /\ a < b * (q + 1)
  BY <1>1
<1>. HIDE DEF q
<1>3. q <= -1 => b * (q + 1) <= 0
  BY <1>2
<1>. QED
  BY <1>1, <1>2, <1>3 DEF q, a

-----------------------------------------------------------------------------
(***************************************************************************)
(* The walk of an order book.                                              *)
(***************************************************************************)
Levels == [price : 1..99, size : Nat \ {0}]

\* What is in a sequence.
LEMMA SequenceType ==
  ASSUME NEW S, NEW seq \in Seq(S)
  PROVE  /\ Len(seq) \in Nat /\ DOMAIN seq = 1..Len(seq)
         /\ \A i \in 1..Len(seq) : seq[i] \in S
         /\ seq # <<>> => Len(seq) > 0
BY LenProperties, EmptySeq, SMT

\* A level of a book has a price within a dollar and something to sell.
LEMMA LevelType ==
  ASSUME NEW book \in Seq(Levels), NEW i \in 1..Len(book)
  PROVE  book[i].price \in 1..99 /\ book[i].size \in Nat \ {0}
<1>1. book[i] \in Levels
  BY SequenceType
<1>. QED
  BY <1>1 DEF Levels

\* What a level is worth is a number.
LEMMA LevelValueType ==
  ASSUME NEW book \in Seq(Levels), NEW i \in 1..Len(book)
  PROVE  LevelValue(book, i) \in Nat
<1>1. book[i].price \in 1..99 /\ book[i].size \in Nat \ {0}
  BY LevelType
<1>2. \A p \in 1..99, s \in Nat : 100 * p * s \in Nat
  OBVIOUS
<1>. QED
  BY <1>1, <1>2 DEF LevelValue

\* The depth before the next level is that before this one and its value.
LEMMA DepthStep ==
  ASSUME NEW book \in Seq(Levels), NEW k \in 1..Len(book)
  PROVE  /\ DepthBefore(book, k) \in Int
         /\ DepthBefore(book, k + 1) = DepthBefore(book, k) + LevelValue(book, k)
<1> DEFINE n == Len(book)
           T == 1..k
           f == [j \in 1..(k - 1) |-> LevelValue(book, j)]
           g == [j \in T |-> LevelValue(book, j)]
<1>1. n \in Nat /\ k \in 1..n /\ T \subseteq 1..n /\ k \in T /\ 1..(k - 1) = T \ {k}
  BY SequenceType
<1>2. IsFiniteSet(T)
  BY <1>1, FS_Interval
<1>3. \A j \in T : LevelValue(book, j) \in Int
  BY <1>1, LevelValueType
<1>4. DOMAIN g = T /\ DOMAIN f = T \ {k} /\ \A x \in T : x # k => f[x] = g[x]
  BY <1>1
<1>5. SumFunction(f) = DepthBefore(book, k) /\ SumFunction(g) = DepthBefore(book, k + 1)
  <2>1. (k + 1) - 1 = k
    BY <1>1
  <2>. QED
    BY <1>1, <2>1 DEF DepthBefore
<1>6. g[k] = LevelValue(book, k)
  BY <1>1
<1>7. IsOneMore(f, g, k)
  BY <1>1, <1>2, <1>3, <1>4 DEF IsOneMore, IsSummable
<1>. HIDE DEF f, g, T
<1>8. SumFunction(f) \in Int /\ SumFunction(g) = SumFunction(f) + g[k]
  BY <1>7, TotalAdd
<1>. QED
  BY <1>5, <1>6, <1>8

\* The shares an order gets from the first k levels cost no more than it and
\* they are worth, at a cent or more a share.
LEMMA SharesAreBounded ==
  ASSUME NEW book \in Seq(Levels), NEW notional \in Nat
  PROVE  \A k \in 0..Len(book) :
           LET shares == [i \in 1..k |-> (10 * TakenAt(book, notional, i)) \div book[i].price]
           IN  /\ shares \in [1..k -> Nat]
               /\ SumFunction(shares) <= 10 * notional
               /\ SumFunction(shares) <= 10 * DepthBefore(book, k + 1)
<1> DEFINE n == Len(book)
           part(i) == (10 * TakenAt(book, notional, i)) \div book[i].price
           shares(k) == [i \in 1..k |-> part(i)]
           P(k) == k \in 0..n => /\ shares(k) \in [1..k -> Nat]
                                /\ SumFunction(shares(k)) <= 10 * notional
                                /\ SumFunction(shares(k)) <= 10 * DepthBefore(book, k + 1)
           Good == {k \in Nat : P(k)}
<1>1. n \in Nat
  BY SequenceType
<1>2. ASSUME NEW i \in 1..n
      PROVE  LET room == Larger(0, notional - DepthBefore(book, i))
             IN  part(i) \in Nat /\ part(i) <= 10 * Smaller(LevelValue(book, i), room)
  <2>1. book[i].price \in 1..99
    BY LevelType
  <2>2. LevelValue(book, i) \in Nat /\ DepthBefore(book, i) \in Int
    BY LevelValueType, DepthStep
  <2> DEFINE taken == TakenAt(book, notional, i)
  <2>3. taken \in Nat
          /\ taken = Smaller(LevelValue(book, i), Larger(0, notional - DepthBefore(book, i)))
    BY <2>2 DEF TakenAt, Smaller, Larger
  <2>. HIDE DEF taken
  <2>4. (10 * taken) \div book[i].price \in Nat
          /\ (10 * taken) \div book[i].price <= 10 * taken
    BY <2>1, <2>3, QuotientBound
  <2>. QED
    BY <2>3, <2>4 DEF taken
<1>3. 0 \in Good
  <2>1. shares(0) \in [1..0 -> Nat] /\ DOMAIN shares(0) = {}
    OBVIOUS
  <2>2. SumFunction(shares(0)) = 0
    BY <2>1, TotalEmpty
  <2>3. DepthBefore(book, 1) = 0
    BY TotalEmpty DEF DepthBefore
  <2>. HIDE DEF shares
  <2>. QED
    BY <2>1, <2>2, <2>3
<1>4. ASSUME NEW k \in Good PROVE k + 1 \in Good
  <2> SUFFICES ASSUME k + 1 \in 1..n PROVE P(k + 1)
    BY <1>1
  <2>1. k \in 0..n /\ k + 1 \in 1..n /\ 1..(k + 1) = 1..k \cup {k + 1} /\ k + 1 \notin 1..k
    BY <1>1
  <2> DEFINE f == shares(k)
             g == shares(k + 1)
             before == DepthBefore(book, k + 1)
             level == LevelValue(book, k + 1)
             after == DepthBefore(book, k + 2)
  <2>2. f \in [1..k -> Nat] /\ SumFunction(f) <= 10 * notional /\ SumFunction(f) <= 10 * before
    BY <2>1
  <2>3. g \in [1..(k + 1) -> Nat]
    <3>1. \A i \in 1..(k + 1) : part(i) \in Nat
      <4>1. 1..(k + 1) \subseteq 1..n
        BY <1>1
      <4>. QED
        BY <4>1, <1>2
    <3>. HIDE DEF part
    <3>. QED
      BY <3>1
  <2>4. SumFunction(g) = SumFunction(f) + part(k + 1) /\ SumFunction(f) \in Int
    <3> DEFINE T == 1..(k + 1)
    <3>0. k + 1 \in Int /\ IsFiniteSet(1..(k + 1))
      BY <2>1, FS_Interval
    <3>1. IsFiniteSet(T) /\ k + 1 \in T /\ T \ {k + 1} = 1..k
      BY <2>1, <3>0
    <3>2. DOMAIN g = T /\ DOMAIN f = T \ {k + 1} /\ \A x \in T : x # k + 1 => f[x] = g[x]
      BY <3>1
    <3>3. g[k + 1] = part(k + 1)
      BY <3>1
    <3>4. \A x \in T : g[x] \in Int
      BY <2>3, <3>1
    <3>. HIDE DEF f, g, part, T
    <3>5. IsOneMore(f, g, k + 1)
      BY <3>1, <3>2, <3>4 DEF IsOneMore, IsSummable
    <3>6. SumFunction(f) \in Int /\ SumFunction(g) = SumFunction(f) + g[k + 1]
      BY <3>5, TotalAdd
    <3>. QED
      BY <3>3, <3>6
  <2>5. before \in Int /\ after = before + level /\ level \in Nat
    BY <2>1, DepthStep, LevelValueType
  <2>6. part(k + 1) \in Nat /\ part(k + 1) <= 10 * Smaller(level, Larger(0, notional - before))
    BY <1>2, <2>1
  <2>. HIDE DEF f, g, before, level, after, part
  <2>7. SumFunction(g) <= 10 * notional /\ SumFunction(g) <= 10 * after
    BY <2>2, <2>4, <2>5, <2>6 DEF Smaller, Larger
  <2>8. k + 1 + 1 = k + 2
    OBVIOUS
  <2>. QED
    BY <2>3, <2>7, <2>8 DEF g, after
<1>5. Good = Nat
  <2>1. Good \in SUBSET Nat
    OBVIOUS
  <2>. HIDE DEF Good
  <2>. QED
    BY <1>3, <1>4, <2>1, NatSetInduction
<1>6. \A k \in Nat : P(k)
  <2>. HIDE DEF P
  <2>. QED
    BY <1>5
<1>. QED
  BY <1>1, <1>6

\* A walk of the book gives no price, or a positive one.
LEMMA WalkType ==
  ASSUME NEW book \in Seq(Levels), NEW notional \in Nat, NEW cfg
  PROVE  WalkTheBook(book, notional, cfg) \in (Nat \ {0}) \cup {NoPrice}
<1> DEFINE n == Len(book)
           shares == [i \in DOMAIN book |-> (10 * TakenAt(book, notional, i)) \div book[i].price]
           total == SumFunction(shares)
<1>1. n \in Nat /\ n \in 0..n /\ DOMAIN book = 1..n
  BY SequenceType
<1>2. shares \in [1..n -> Nat] /\ total <= 10 * notional
  BY <1>1, SharesAreBounded
<1>3. total \in Nat
  <2>. HIDE DEF shares, n
  <2>1. IsFiniteSet(1..n)
    BY <1>1, FS_Interval
  <2>2. DOMAIN shares = 1..n /\ \A i \in 1..n : shares[i] \in Nat
    BY <1>2
  <2>3. IsSummable(shares) /\ \A i \in DOMAIN shares : shares[i] >= 0
    BY <2>1, <2>2 DEF IsSummable
  <2>. QED
    BY <2>3, TotalNat
<1>4. total # 0 => (10 * notional) \div total \in Nat \ {0}
  <2>1. \A a \in Nat, b \in Nat : b # 0 /\ b <= a => a \div b \in Nat \ {0}
    <3> SUFFICES ASSUME NEW a \in Nat, NEW b \in Nat, b # 0, b <= a
                 PROVE  a \div b \in Nat \ {0}
      OBVIOUS
    <3> DEFINE q == a \div b
    <3>1. q \in Int /\ b * q <= a /\ a < b * (q + 1)
      OBVIOUS
    <3>. HIDE DEF q
    <3>2. CASE q <= 0
      <4>1. b * (q + 1) <= b
        BY <3>1, <3>2
      <4>. QED
        BY <3>1, <4>1
    <3>. QED
      BY <3>1, <3>2 DEF q
  <2>. HIDE DEF total
  <2>2. 10 * notional \in Nat
    OBVIOUS
  <2>. QED
    BY <1>2, <1>3, <2>1, <2>2
<1>. HIDE DEF total, shares
<1>5. \/ WalkTheBook(book, notional, cfg) = NoPrice
      \/ total # 0 /\ WalkTheBook(book, notional, cfg) = (10 * notional) \div total
  BY DEF WalkTheBook, total, shares
<1>. QED
  BY <1>4, <1>5

-----------------------------------------------------------------------------
(***************************************************************************)
(* The fee and Kelly's stake.                                              *)
(***************************************************************************)

\* The fee of a trade is a number.
LEMMA TakerFeeType ==
  \A price, size, rate \in Int : TakerFee(price, size, rate) \in Int
<1>1. \A price, size, rate \in Int : size * rate * price * (100 - price) \in Int
  OBVIOUS
<1>. QED
  BY <1>1 DEF TakerFee

\* Kelly's stake is declined or a number of the stated kind.
LEMMA KellyType ==
  ASSUME NEW bankroll \in Nat, NEW pHat \in Int, NEW price \in Nat, NEW cfg,
         cfg.kellyFeePct \in Nat, cfg.kellyFractionPct \in Nat, cfg.maxPositionPct \in Nat
  PROVE  SizeKellyPosition(bankroll, pHat, price, cfg) \in Nat \cup {Skip}
<1>0. Pct(cfg.maxPositionPct, bankroll) \in Nat
  BY PctNat
<1> DEFINE c == Pct(100 + cfg.kellyFeePct, price)
           edge == (bankroll * (pHat - c)) \div (100 - c)
<1>1. c \in Nat
  <2>1. 100 + cfg.kellyFeePct \in Nat /\ price \in Nat
    OBVIOUS
  <2>. QED
    BY <2>1, PctNat
<1>. HIDE DEF c
<1>2. CASE c >= 100 \/ pHat <= c
  BY <1>2 DEF SizeKellyPosition, c
<1>3. CASE ~(c >= 100 \/ pHat <= c)
  <2>1. pHat - c \in Nat /\ 100 - c \in Nat /\ 100 - c > 0
    BY <1>1, <1>3
  <2>2. edge \in Nat
    BY <2>1, QuotientOfProduct
  <2>. HIDE DEF edge
  <2>3. Pct(cfg.kellyFractionPct, edge) \in Nat
    BY <1>3, <2>2, PctNat
  <2>4. SizeKellyPosition(bankroll, pHat, price, cfg)
          = Smaller(Pct(cfg.kellyFractionPct, edge), Pct(cfg.maxPositionPct, bankroll))
    BY <1>3 DEF SizeKellyPosition, c, edge
  <2>. QED
    BY <1>0, <2>3, <2>4 DEF Smaller
<1>. QED
  BY <1>2, <1>3
=============================================================================
