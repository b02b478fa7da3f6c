------------------------------ MODULE CoTrading ------------------------------
(***************************************************************************)
(* Who counts as one voice (app/optimization/cotrading.py, clustering.py): *)
(* wallets that opened the same outcome within minutes of each other, in   *)
(* enough distinct markets, are joined by an edge, and the communities of  *)
(* that graph are the clusters the consensus counts.                       *)
(***************************************************************************)
EXTENDS WalletRecords, Graphs

CONSTANTS
  CoTradeWindow,    \* cotrade_window_minutes
  MinSharedMarkets  \* cotrade_min_shared_markets

ASSUME CoTradingConstants == CoTradeWindow \in Nat /\ MinSharedMarkets \in Nat \ {0}

\* Two wallets opened one outcome together.
CoTraded(e, f) ==
  /\ e.wallet # f.wallet /\ e.market = f.market /\ e.side = f.side
  /\ e.at - f.at \in -CoTradeWindow..CoTradeWindow

SharedMarkets(v, w) ==
  {e.market : e \in {d \in FreshOpens :
                       d.wallet = v /\ \E f \in FreshOpens : f.wallet = w /\ CoTraded(d, f)}}

\* Once is not enough, nor twice on one market.
CoTradingGraph ==
  [node |-> TrackedWallets,
   edge |-> {p \in TrackedWallets \X TrackedWallets :
               Cardinality(SharedMarkets(p[1], p[2])) >= MinSharedMarkets}]

\* Louvain's communities, for graphs whose connected parts it has no reason to
\* divide: pairs, triangles and wallets without an edge, which stay alone.
Communities ==
  LET connected == ConnectionsIn(CoTradingGraph)
  IN  {{w \in TrackedWallets : connected[v, w]} : v \in TrackedWallets}

\* wallet_clusters, written from scratch by each run.  A cluster's id is a hash of
\* its sorted members, so that the members stand for it: a cluster whose
\* membership changes is another one.
WalletClusters == [w \in TrackedWallets |-> CHOOSE c \in Communities : w \in c]

\* A wallet without a row is a cluster of its own.
ClusterOf(w) == IF w \in TrackedWallets THEN WalletClusters[w] ELSE {w}
=============================================================================
