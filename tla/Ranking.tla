------------------------------- MODULE Ranking -------------------------------
(***************************************************************************)
(* The top of a ranking, as the scorer (app/consensus/scorer.py) and niche *)
(* promotion (app/discovery/promotion.py) take it.                         *)
(***************************************************************************)
EXTENDS FiniteSets, Integers

\* The n best by value, as sorted(..., reverse=True)[:n] takes them; ties fall
\* in the order of a Python dict.
TopSets(value, n) ==
  {T \in SUBSET DOMAIN value :
     /\ Cardinality(T) = (IF Cardinality(DOMAIN value) < n THEN Cardinality(DOMAIN value) ELSE n)
     /\ \A t \in T, u \in DOMAIN value \ T : value[t] >= value[u]}
=============================================================================
