--------------------------- MODULE MCScoutPipeline ---------------------------
(* Small instances of the Scout for TLC. *)
EXTENDS ScoutPipeline, TLC

CONSTANTS w1, p1, p2, p3

\* One wallet with three positions, the first two in one event.
OneWallet == [p \in {p1, p2, p3} |-> w1]
TwoEvents == (p1 :> "e1" @@ p2 :> "e1" @@ p3 :> "e2")

\* A winning trade below a decay threshold of 2, a losing one, and one above it.
MixedClvs == (p1 :> 1 @@ p2 :> -1 @@ p3 :> 3)
\* Three quick wins in a day; the same with a loser that is kept open for good.
Winner == [open |-> FALSE, pnl |-> 2, age |-> 1]
MCHistories ==
  {<<Winner, Winner, Winner>>, <<Winner, Winner, Winner, [open |-> TRUE, pnl |-> -9, age |-> 3]>>}

MCScreening ==
  [graceDays |-> 1, lookbackDays |-> 2, minTradesPerDay |-> 100, minTrades |-> 3,
   minWinRate |-> 40, minWeekShare |-> 50]
=============================================================================
