---------------------------- MODULE MCConsensusV2 ----------------------------
(***************************************************************************)
(* One market, three wallets in two clusters with positions on it, and a   *)
(* settled signal of another event, so that the market's own first signal  *)
(* decides whether the Kelly gate passes.                                  *)
(***************************************************************************)
EXTENDS ConsensusV2

\* Wallets 1 and 2 opened two markets together and one each with wallet 3, who
\* opened another an hour after them; what was there at first sight tells nothing.
MCOpened ==
  {[wallet |-> w, market |-> m, side |-> "yes", at |-> 60 * m + w, event |-> "OPENED",
    bootstrap |-> FALSE, usd |-> 10] : w \in 1..2, m \in 1..2}
  \cup {[wallet |-> 3, market |-> m, side |-> "yes", at |-> IF m = 1 THEN 61 ELSE 200,
         event |-> "OPENED", bootstrap |-> m = 3, usd |-> 10] : m \in 1..3}
  \cup {[wallet |-> 1, market |-> 3, side |-> "yes", at |-> 200, event |-> "OPENED",
         bootstrap |-> FALSE, usd |-> 10]}

\* Wallet 1 always won, wallet 2 won long ago and holds a position of an ended
\* market, wallet 3 won but for once; politics is another matter.
MCHeld ==
  LET past(w, pnl, age) == [wallet |-> w, category |-> "sports", open |-> FALSE,
                              pnl |-> pnl, age |-> age]
  IN  [i \in 1..9 |-> past(1, 10, i \div 8)] \o <<past(2, 5, 2)>>
        \o <<[past(2, 5, 3) EXCEPT !.open = TRUE], [past(2, 5, 0) EXCEPT !.open = TRUE]>>
        \o [i \in 1..9 |-> past(3, IF i = 1 THEN -10 ELSE 10, 0)]
        \o <<[past(3, -10, 0) EXCEPT !.category = "politics"]>>
Holding(w, s, u) == [wallet |-> w, side |-> s, usd |-> u]

\* Agreement with a cap, disagreement, and a cluster alone.
MCExposures ==
  {{Holding(1, "yes", 100), Holding(2, "no", 40), Holding(3, "yes", 300)},
   {Holding(1, "yes", 90), Holding(3, "no", 10)},
   {Holding(1, "no", 50), Holding(2, "no", 50)}}

MCV2Books == {[bid |-> 48, asks |-> <<[price |-> 50, size |-> 100]>>]}
MCPastDiffs == <<[event |-> 2, diff |-> 6]>>
MCEventOf == [m \in Markets |-> m]
MCKelly == [kellyFeePct |-> 4, kellyFractionPct |-> 25, maxPositionPct |-> 50, maxBookDepthPct |-> 50]
=============================================================================
