----------------------------- MODULE Settlement -----------------------------
(***************************************************************************)
(* How a side portfolio (app/coherence/scan.py, app/consensus_v2/scan.py)  *)
(* finds out that a token it holds has settled: markets.closed and the     *)
(* token's latest price snapshot, never market_resolutions.                *)
(***************************************************************************)
EXTENDS MarketFeed, SequencesExt

CONSTANTS
  Threshold,         \* paper_resolution_price_threshold, in cents
  NoTxn,             \* a scan that is not running
  MaxEvents          \* bound: mispricings, signals and faults in all

ASSUME SettlementConstants == Threshold \in 0..49 /\ MaxEvents \in Nat

VARIABLE events      \* mispricings, signals and faults so far

Event == events < MaxEvents /\ events' = events + 1

Unsettled == -1      \* the exit price of an open fill or trade

\* The latest snapshot of a token, a market and one of its sides.
TokenPrice(t) ==
  CASE quoted[t.market] = NoPrice -> NoPrice
    [] quoted[t.market] # NoPrice /\ t.side = "yes" -> quoted[t.market]
    [] OTHER -> 100 - quoted[t.market]

Outcome(t) == DetectResolution(closed[t.market], TokenPrice(t), Threshold)

IsSettled(t) == Outcome(t) \in {"WON", "LOST"}

Redeemed(t) == IF Outcome(t) = "WON" THEN 100 ELSE 0
=============================================================================
