----------------------------- MODULE MCCoherence -----------------------------
(***************************************************************************)
(* One market whose two sides are an outcome set twice: as a hedge that    *)
(* may be bought, and as a set of a type that is only detected.            *)
(***************************************************************************)
EXTENDS CoherencePortfolio

CONSTANTS hedge, bids

Leg(m, s) == [market |-> m, side |-> s]
Level(p, s) == [price |-> p, size |-> s]

MCSetOrder == <<hedge, bids>>
MCLegsOf == [k \in {hedge, bids} |-> <<Leg(1, "yes"), Leg(1, "no")>>]

\* A deep book at 40, a thin one at 48, one whose edge
\* over the deep one the fees eat.
MCBooks == {<<Level(40, 8)>>, <<Level(48, 4), Level(49, 6)>>, <<Level(58, 4)>>}
=============================================================================
