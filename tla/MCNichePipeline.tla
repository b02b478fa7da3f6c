--------------------------- MODULE MCNichePipeline ---------------------------
(* A small instance of a discovery sweep for TLC. *)
EXTENDS NichePipeline, TLC

CONSTANTS w1, w2, p1, p2, p3

Buy(w, m, o) == [wallet |-> w, market |-> m, side |-> "BUY", outcome |-> o]

\* The wallets' records come from market 1; w1's positions are on the others,
\* two of them gain and one loses.
Tagged == (1 :> "MMA" @@ 2 :> "MMA" @@ 3 :> "MMA")
SomeTrades == {Buy(w1, 1, 0), Buy(w2, 1, 1), [Buy(w2, 1, 0) EXCEPT !.side = "SELL"]}
Endings == (1 :> {NoWinner, 0, 1} @@ 2 :> {0} @@ 3 :> {0})
Openers == (p1 :> w1 @@ p2 :> w1 @@ p3 :> w1)
PositionMarkets == (p1 :> 2 @@ p2 :> 3 @@ p3 :> 3)
Gains == (p1 :> 1 @@ p2 :> 2 @@ p3 :> -3)
=============================================================================
