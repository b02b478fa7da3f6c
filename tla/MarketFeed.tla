----------------------------- MODULE MarketFeed -----------------------------
(***************************************************************************)
(* What the market and resolution collectors promise the readers of        *)
(* markets.closed and price_snapshots: a market is marked closed only once *)
(* it has stopped trading; it may be opened again once, by an answer given *)
(* before it stopped; and in the end it is closed for good.  A snapshot    *)
(* may be stale, also on a closed market, and need not ever show the       *)
(* payout.  MarketSync implements this; CoherencePortfolio and ConsensusV2 *)
(* rely on it.                                                             *)
(***************************************************************************)
EXTENDS PaperPricing

CONSTANTS
  Markets,        \* a set of positive integers, in the order of the condition ids
  TradingPrices,  \* the prices of the YES token before it settles, in cents
  Settlements     \* bound: the ways a market may settle

ASSUME FeedConstants ==
  /\ Markets \subseteq Nat \ {0} /\ TradingPrices \subseteq 0..100
  /\ Settlements \subseteq {"yes", "no", "void"} /\ NoPrice \notin 0..100

VARIABLES
  life,           \* what the market really is: trading, ended or settled
  closed,         \* markets.closed
  quoted,         \* the latest price_snapshots row of its YES token, or NoPrice
  reopened        \* ghost: the markets that were marked open again

feedVars == <<life, closed, quoted, reopened>>

Payout == [yes |-> 100, no |-> 0, void |-> 50]

Prices == TradingPrices \cup {Payout[s] : s \in Settlements}

\* The prices the exchange may give for a market now.
PriceOf(m) == IF life[m] \in Settlements THEN {Payout[life[m]]} ELSE TradingPrices

EndTrading(m) ==
  /\ life[m] = "trading" /\ life' = [life EXCEPT ![m] = "ended"]
  /\ UNCHANGED <<closed, quoted, reopened>>

Settle(m) ==
  /\ life[m] = "ended" /\ \E s \in Settlements : life' = [life EXCEPT ![m] = s]
  /\ UNCHANGED <<closed, quoted, reopened>>

Reopened == {m \in Markets : closed[m] /\ ~closed'[m]}

\* A commit of either collector, of any number of rows.
Collect ==
  /\ closed' \in [Markets -> BOOLEAN]
  /\ quoted' \in [Markets -> {NoPrice} \cup Prices]
  /\ \A m \in Markets :
       /\ closed'[m] => closed[m] \/ life[m] # "trading"
       /\ quoted'[m] = NoPrice => quoted[m] = NoPrice
  /\ Reopened \cap reopened = {}
  /\ reopened' = reopened \cup Reopened
  /\ UNCHANGED life

FeedInit ==
  /\ life = [m \in Markets |-> "trading"]
  /\ closed = [m \in Markets |-> FALSE]
  /\ quoted = [m \in Markets |-> NoPrice]
  /\ reopened = {}

Exchange == \E m \in Markets : EndTrading(m) \/ Settle(m)

FeedNext == Exchange \/ Collect

CloseEnded(m) ==
  /\ ~closed[m] /\ life[m] # "trading"
  /\ closed' \in {c \in [Markets -> BOOLEAN] : c[m]}
  /\ Collect

\* The collectors keep running; nothing is assumed of the exchange.
FeedFairness == \A m \in Markets : WF_feedVars(CloseEnded(m))

FeedSafety == FeedInit /\ [][FeedNext]_feedVars

FeedSpec == FeedSafety /\ FeedFairness
=============================================================================
