---------------------------- MODULE MCMarketSync ----------------------------
(* Three markets, a budget of two: one is held, one is dropped once it is over. *)
EXTENDS MarketSync
OneDated == <<1>>
=============================================================================
