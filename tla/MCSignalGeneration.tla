-------------------------- MODULE MCSignalGeneration --------------------------
(* A small instance of SignalGeneration: an operator with two wallets and an
   independent trader, on the two tokens of one market. *)
EXTENDS SignalGeneration, TLC

CONSTANTS a1, a2, b, yes, no, m

Recorded(w, k, s, t, e) ==
  [wallet |-> w, market |-> k, side |-> s, at |-> t, event |-> e, bootstrap |-> FALSE, usd |-> 50]

\* The operator's wallets opened two markets minutes apart; the second of them also
\* flips both sides of a third, and b holds one position for days.
MCHistory ==
  {Recorded(a1, k, "yes", 60 * k, "OPENED") : k \in 1..2}
  \cup {Recorded(a2, k, "yes", 60 * k + 5, "OPENED") : k \in 1..2}
  \cup {Recorded(a1, 1, "yes", 4000, "CLOSED"), Recorded(b, 1, "yes", 200, "OPENED"),
        Recorded(b, 1, "yes", 6000, "CLOSED")}
  \cup UNION {{Recorded(a2, 3, s, 300, "OPENED"), Recorded(a2, 3, s, 1500, "CLOSED")} :
                s \in {"yes", "no"}}

\* The operator's good record is its first wallet's.
MCHeld ==
  LET past(w, pnl, age) == [wallet |-> w, category |-> "sports", open |-> FALSE,
                            pnl |-> pnl, age |-> age]
  IN  [i \in 1..9 |-> past(a1, 10, 0)] \o [i \in 1..5 |-> past(a2, 10, 1)]
        \o [i \in 1..9 |-> past(b, IF i > 7 THEN -10 ELSE 10, 0)]
        \o <<[past(a2, 10, 3) EXCEPT !.open = TRUE], [past(b, -10, 0) EXCEPT !.category = "politics"]>>

MCValue == a1 :> 1 @@ a2 :> 1 @@ b :> 2
MCCategoryOf == m :> "sports"
MCMarketOf == yes :> m @@ no :> m

Good == [accepting |-> TRUE, hoursToEnd |-> 12, liquidity |-> 5, volume |-> 1, price |-> 50,
         spread |-> 5]

\* A market that passes every filter and one whose spread is too wide.
MCQuotes == {Good, [Good EXCEPT !.spread = 6]}
MCPriceBand == 5..95
=============================================================================
