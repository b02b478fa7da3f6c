---------------------------- MODULE PositionSweep ----------------------------
(***************************************************************************)
(* Which wallets are followed, and what is recorded of them: the           *)
(* leaderboard collector and the scorer it calls (collectors/leaderboard,  *)
(* consensus/scorer) set is_tracked; the position collector                *)
(* (collectors/positions, diffing, polymarket) pages every followed        *)
(* wallet's positions, compares them with the rows it has and appends to   *)
(* position_history.  The wallets trade all the while, also between two    *)
(* pages of one fetch.                                                     *)
(*                                                                         *)
(* position_history is kept as one sequence per wallet and asset, in the   *)
(* order of the rows' ids.  At MaxTime the clock stands still and the jobs *)
(* go on running.                                                          *)
(***************************************************************************)
EXTENDS Ranking, SequencesExt

CONSTANTS
  Wallets,
  AssetOrder,      \* the outcome tokens, in the order the API lists them
  Sizes,           \* the sizes a wallet may hold
  InitialSizes,    \* bound: what it may hold when the program first runs
  Epsilon,         \* SIZE_EPSILON, in the same unit
  PageSize,        \* PolymarketClient._POSITIONS_PAGE_SIZE
  MaxOffset,       \* PolymarketClient._POSITIONS_MAX_OFFSET
  Periods,         \* leaderboard_time_periods
  Pnl,             \* the normalized pnl a wallet may show on a leaderboard
  MonthWeight, AllTimeWeight, ConsistencyWeight,   \* score_weight_*
  Lookback,        \* scoring_lookback_days
  TrackedLimit,    \* tracked_wallets_limit
  NoSweep,         \* no sweep is running
  MaxTime,         \* bound: the clock stops here
  MaxEvents        \* bound: trades, leaderboards, promotions and faults in all

Assets == Range(AssetOrder)

ASSUME SweepConstants ==
  /\ AssetOrder \in Seq(Assets) /\ IsInjective(AssetOrder)
  /\ Sizes \subseteq Nat \ {0} /\ Epsilon \in Nat
  /\ PageSize \in Nat \ {0} /\ MaxOffset \in Nat /\ Pnl \subseteq Nat
  /\ \E pages \in 0..MaxOffset : MaxOffset = pages * PageSize
  /\ TrackedLimit \in Nat /\ MaxTime \in Nat /\ InitialSizes \subseteq Sizes \cup {0}

VARIABLES
  now,            \* the wall clock
  holdings,       \* what each wallet really holds of each asset
  openedSince,    \* ghost: the assets a wallet opened since its last stored sweep began
  snapshots,      \* leaderboard_snapshots
  leaderboard,    \* the leaderboard job: "idle", or "stored" before it scores
  started,        \* main has collected the leaderboard and scheduled the jobs
  isTracked,      \* the wallets with wallets.is_tracked
  nicheTracked,   \* the wallets with wallets.niche_tracked
  positions,      \* the positions table, by wallet and asset
  history,        \* position_history, by wallet and asset, oldest first
  sweep,          \* the running sweep, or NoSweep
  swept,          \* ghost: the wallets with a stored sweep
  inexact,        \* ghost: those whose last stored answer may have been torn or cut
  events          \* trades, leaderboards, promotions and faults so far

market == <<holdings, openedSince>>
tracking == <<snapshots, leaderboard, started, isTracked>>
recorded == <<positions, history, swept, inexact>>
sweepVars == <<now, market, tracking, nicheTracked, recorded, sweep, events>>

NoRow == [exists |-> FALSE]

\* The members of s that are in S, in their order.
Only(s, S) ==
  LET only[i \in 0..Len(s)] ==
        CASE i = 0 -> <<>>
          [] i > 0 /\ s[i] \in S -> Append(only[i - 1], s[i])
          [] OTHER -> only[i - 1]
  IN  only[Len(s)]

Event == events < MaxEvents /\ events' = events + 1

-----------------------------------------------------------------------------
(***************************************************************************)
(* The wallets and the clock.                                              *)
(***************************************************************************)
Tick == now < MaxTime /\ now' = now + 1
        /\ UNCHANGED <<market, tracking, nicheTracked, recorded, sweep, events>>

\* A wallet buys, sells or closes; a sweep that is fetching may see either side.
Trade(w, a) ==
  /\ Event
  /\ \E size \in (Sizes \cup {0}) \ {holdings[w][a]} :
       holdings' = [holdings EXCEPT ![w][a] = size]
  /\ LET opens == IF holdings[w][a] = 0 THEN {a} ELSE {}
     IN  /\ openedSince' = [openedSince EXCEPT ![w] = @ \cup opens]
         /\ sweep' = IF sweep = NoSweep \/ w \notin DOMAIN sweep.answer THEN sweep
                     ELSE [sweep EXCEPT !.traded = @ \cup {w}, !.opened[w] = @ \cup opens]
  /\ UNCHANGED <<now, tracking, nicheTracked, recorded>>

-----------------------------------------------------------------------------
(***************************************************************************)
(* The leaderboard and the tracked set.                                    *)
(***************************************************************************)
\* One leaderboard row: append-only, one per wallet, period and capture.
Snapshot(w, period, pnl) == [wallet |-> w, at |-> now, period |-> period, pnl |-> pnl]

\* A collection persists every period's page in one transaction.
\* After MaxEvents the pages are empty.
CollectLeaderboard ==
  /\ leaderboard = "idle"
  /\ \/ Event
        /\ \E listed \in SUBSET (Wallets \X Periods) : \E pnl \in [listed -> Pnl] :
             snapshots' = snapshots \cup {Snapshot(e[1], e[2], pnl[e]) : e \in listed}
     \/ events = MaxEvents /\ UNCHANGED <<events, snapshots>>
  /\ leaderboard' = "stored"
  /\ UNCHANGED <<now, market, started, isTracked, nicheTracked, recorded, sweep>>

Recent == {s \in snapshots : s.at >= now - Lookback}

\* The wallet's latest pnl for a period, and nothing for a wallet without one.
LatestPnl(w, period) ==
  LET mine == {s \in Recent : s.wallet = w /\ s.period = period}
  IN  IF mine = {} THEN 0
      ELSE (CHOOSE s \in mine : \A t \in mine : t.at <= s.at).pnl

Captures(rows) == Cardinality({s.at : s \in rows})

\* The blended score, times the number of captures in the lookback.
Score(w) ==
  Captures(Recent) * (MonthWeight * LatestPnl(w, "MONTH") + AllTimeWeight * LatestPnl(w, "ALL"))
    + ConsistencyWeight * Captures({s \in Recent : s.wallet = w})

Scores == [w \in {s.wallet : s \in Recent} |-> Score(w)]

\* run_scoring clears every is_tracked and marks the top scorers, in one
\* transaction; with nothing in the lookback it returns before it clears.
RunScoring ==
  /\ leaderboard = "stored"
  /\ isTracked' \in (IF Recent = {} THEN {isTracked} ELSE TopSets(Scores, TrackedLimit))
  /\ leaderboard' = "idle" /\ started' = TRUE
  /\ UNCHANGED <<now, market, snapshots, nicheTracked, recorded, sweep, events>>

\* Scoring raises after the snapshots are committed: the next run makes up for it.
FailScoring ==
  /\ leaderboard = "stored" /\ Event
  /\ leaderboard' = "idle"
  /\ UNCHANGED <<now, market, snapshots, started, isTracked, nicheTracked, recorded, sweep>>

-----------------------------------------------------------------------------
(***************************************************************************)
(* The sweep.                                                              *)
(***************************************************************************)
Followed == isTracked \cup nicheTracked

BeginSweep ==
  /\ started /\ sweep = NoSweep /\ Followed # {}
  /\ sweep' = [traded |-> {}, opened |-> [w \in Followed |-> {}],
               answer |-> [w \in Followed |-> <<>>], offset |-> [w \in Followed |-> 0]]
  /\ UNCHANGED <<now, market, tracking, nicheTracked, recorded, events>>

\* What the API lists for a wallet at this moment.
Listing(w) ==
  LET held == Only(AssetOrder, {a \in Assets : holdings[w][a] > 0})
  IN  [i \in DOMAIN held |-> [asset |-> held[i], size |-> holdings[w][held[i]]]]

Page(w, offset) ==
  SubSeq(Listing(w), offset + 1,
         IF offset + PageSize < Len(Listing(w)) THEN offset + PageSize ELSE Len(Listing(w)))

\* Mutant: a page that is just full is taken for the last one.
LastPageIfFull(page) == Len(page) <= PageSize

\* A short page is the last one.
IsLastPage(page) == Len(page) < PageSize

Done == MaxOffset + 1      \* past the last page that is asked for

\* The wallets' fetches run side by side, each one page at a time.
FetchPage(w) ==
  /\ sweep # NoSweep /\ w \in DOMAIN sweep.answer /\ sweep.offset[w] <= MaxOffset
  /\ LET page == Page(w, sweep.offset[w])
     IN  sweep' = [sweep EXCEPT
                     !.answer[w] = @ \o page,
                     !.offset[w] = IF IsLastPage(page) \/ @ + PageSize > MaxOffset
                                     THEN Done ELSE @ + PageSize]
  /\ UNCHANGED <<now, market, tracking, nicheTracked, recorded, events>>

\* One fetch that raises fails the sweep of every wallet.
FailSweep ==
  /\ sweep # NoSweep /\ Event /\ sweep' = NoSweep
  /\ UNCHANGED <<now, market, tracking, nicheTracked, recorded>>

-----------------------------------------------------------------------------
(***************************************************************************)
(* diff_positions and _sync_wallet, on the rows at the commit.             *)
(***************************************************************************)
\* A row of the positions table.
PositionRow(size) == [exists |-> TRUE, open |-> size > 0, size |-> size]

\* A row of position_history.
HistoryRow(type, size, boot) == [type |-> type, size |-> size, boot |-> boot]

OpenRow(w, a) == positions[w][a].exists /\ positions[w][a].open

\* Mutant: whether the wallet is new is asked after its rows are written.
IsBootstrapAfterUpserts(w) == FALSE

\* A wallet without any row, open or closed, counts as never swept before.
IsBootstrap(w) == \A a \in Assets : ~positions[w][a].exists

\* The change a listed size makes to the row; SAME is no event.
ChangeOf(w, a, size) ==
  CASE ~OpenRow(w, a) -> "OPENED"
    [] OpenRow(w, a) /\ size - positions[w][a].size > Epsilon -> "INCREASED"
    [] OpenRow(w, a) /\ positions[w][a].size - size > Epsilon -> "DECREASED"
    [] OTHER -> "SAME"

\* The entries of an answer for one asset: more than one if a page repeats it.
Entries(answer, a) == Only(answer, {e \in Range(answer) : e.asset = a})

\* Mutant: an unchanged position is an event too.
DiffPositionsUnfiltered(w, a, answer) ==
  LET entries == Entries(answer, a)
  IN  CASE entries # <<>> ->
             [i \in DOMAIN entries |->
                HistoryRow(ChangeOf(w, a, entries[i].size), entries[i].size, IsBootstrap(w))]
        [] entries = <<>> /\ OpenRow(w, a) -> <<HistoryRow("CLOSED", 0, IsBootstrap(w))>>
        [] OTHER -> <<>>

\* Mutant: a position that is gone is no event.
DiffPositionsListed(w, a, answer) ==
  LET entries == Entries(answer, a)
      changes == [i \in DOMAIN entries |->
                    HistoryRow(ChangeOf(w, a, entries[i].size), entries[i].size, IsBootstrap(w))]
  IN  Only(changes, {e \in Range(changes) : e.type # "SAME"})

\* The events of one asset: one per entry that changed, or CLOSED if it is gone.
DiffPositions(w, a, answer) ==
  LET entries == Entries(answer, a)
      changes == [i \in DOMAIN entries |->
                    HistoryRow(ChangeOf(w, a, entries[i].size), entries[i].size, IsBootstrap(w))]
  IN  CASE entries # <<>> -> Only(changes, {e \in Range(changes) : e.type # "SAME"})
        [] entries = <<>> /\ OpenRow(w, a) -> <<HistoryRow("CLOSED", 0, IsBootstrap(w))>>
        [] OTHER -> <<>>

\* Mutant: the row of a position that is gone stays open.
SyncPositionKeepingOpen(w, a, answer) ==
  LET entries == Entries(answer, a)
  IN  IF entries # <<>> THEN PositionRow(Last(entries).size) ELSE positions[w][a]

\* The row after the upsert of each entry and the closing of what is gone.
SyncPosition(w, a, answer) ==
  LET entries == Entries(answer, a)
  IN  CASE entries # <<>> -> PositionRow(Last(entries).size)
        [] entries = <<>> /\ OpenRow(w, a) -> PositionRow(0)
        [] OTHER -> positions[w][a]

\* Once every fetch is in, captured_at is read and all wallets of the sweep are
\* stored in one transaction.
CommitSweep ==
  /\ sweep # NoSweep /\ \A w \in DOMAIN sweep.answer : sweep.offset[w] = Done
  /\ positions' = [w \in Wallets |->
       IF w \in DOMAIN sweep.answer
         THEN [a \in Assets |-> SyncPosition(w, a, sweep.answer[w])] ELSE positions[w]]
  /\ history' = [w \in Wallets |->
       IF w \in DOMAIN sweep.answer
         THEN [a \in Assets |-> history[w][a] \o DiffPositions(w, a, sweep.answer[w])]
         ELSE history[w]]
  /\ openedSince' = [w \in Wallets |->
       IF w \in DOMAIN sweep.answer THEN sweep.opened[w] ELSE openedSince[w]]
  /\ swept' = swept \cup DOMAIN sweep.answer
  /\ inexact' = (inexact \ DOMAIN sweep.answer)
                 \cup {w \in DOMAIN sweep.answer :
                         w \in sweep.traded \/ Len(Listing(w)) > MaxOffset + PageSize}
  /\ sweep' = NoSweep
  /\ UNCHANGED <<now, holdings, tracking, nicheTracked, events>>

\* Discovery's promotion marks other wallets (discovery/promotion).
Promote ==
  /\ started /\ Event
  /\ nicheTracked' \in SUBSET Wallets \ {nicheTracked}
  /\ UNCHANGED <<now, market, tracking, recorded, sweep>>

\* The process dies and is started again: main collects the leaderboard first.
Crash ==
  /\ started /\ Event
  /\ started' = FALSE /\ leaderboard' = "idle" /\ sweep' = NoSweep
  /\ UNCHANGED <<now, market, snapshots, isTracked, nicheTracked, recorded>>

-----------------------------------------------------------------------------
SweepInit ==
  /\ now = 0
  /\ holdings \in [Wallets -> [Assets -> InitialSizes]]
  /\ openedSince = [w \in Wallets |-> {}]
  /\ snapshots = {} /\ leaderboard = "idle" /\ started = FALSE
  /\ isTracked = {} /\ nicheTracked = {}
  /\ positions = [w \in Wallets |-> [a \in Assets |-> NoRow]]
  /\ history = [w \in Wallets |-> [a \in Assets |-> <<>>]]
  /\ sweep = NoSweep
  /\ swept = {} /\ inexact = {}
  /\ events = 0

World == Tick \/ \E w \in Wallets, a \in Assets : Trade(w, a)
Leaderboard == CollectLeaderboard \/ RunScoring
Sweep == BeginSweep \/ (\E w \in Wallets : FetchPage(w)) \/ CommitSweep
Failures == FailScoring \/ FailSweep \/ Crash

SweepNext == World \/ Leaderboard \/ Promote \/ Sweep \/ Failures

\* run_jobs runs every job again after its interval, whatever the last run
\* did, and the service manager starts the process again; nothing is assumed
\* of the wallets, the leaderboard's content or the faults.
SweepFairness == WF_sweepVars(Leaderboard) /\ WF_sweepVars(Sweep)

SweepSpec == SweepInit /\ [][SweepNext]_sweepVars /\ SweepFairness

-----------------------------------------------------------------------------
(***************************************************************************)
(* Properties.                                                             *)
(***************************************************************************)
\* position_history replays to positions: a row is open exactly if the last
\* event of its wallet and asset is not a CLOSED one, through repeated and
\* missing pages, failed sweeps and restarts (_sync_wallet writes both).
OpenIffHistorySaysSo ==
  \A w \in Wallets, a \in Assets :
    OpenRow(w, a) <=> history[w][a] # <<>> /\ Last(history[w][a]).type # "CLOSED"

\* The events a commit adds.
Added(w, a) ==
  {history'[w][a][i] : i \in (Len(history[w][a]) + 1) .. Len(history'[w][a])}

\* An OPENED event outside the bootstrap is a position the wallet really opened
\* after its previous sweep began, so that what consensus takes for an entry
\* (docs/PHASE3_DESIGN.md:174) is one; only a fetch torn by a trade between its
\* pages, or cut at the maximum offset, can pass an old position off as new.
\* How long ago the previous sweep was is not bounded: a wallet may have left
\* the tracked set in between.
FreshOpensAreNew ==
  [][ \A w \in Wallets, a \in Assets : \A e \in Added(w, a) :
        e.type = "OPENED" /\ ~e.boot =>
          w \in swept /\ (a \in openedSince[w] \/ w \in inexact) ]_sweepVars

\* A sweep stores exactly what a wallet that did not trade during it holds,
\* also when it takes several pages (get_positions).
SteadyWalletsAreExact ==
  [][ CommitSweep =>
        \A w \in DOMAIN sweep.answer \ inexact' : \A a \in Assets :
          /\ holdings[w][a] > 0 => positions'[w][a] = PositionRow(holdings[w][a])
          /\ holdings[w][a] = 0 => ~(positions'[w][a].exists /\ positions'[w][a].open) ]_sweepVars

\* A wallet that stays followed, and holds no more than its pages reach, ends
\* up with rows that are what it holds, whatever was torn or failed before.
RowsConverge ==
  \A w \in Wallets :
    <>[](w \in Followed) =>
      <>[](\/ Len(Listing(w)) > MaxOffset + PageSize
           \/ \A a \in Assets : OpenRow(w, a) <=> holdings[w][a] > 0)

HistoryType == [type : {"OPENED", "INCREASED", "DECREASED", "CLOSED"},
                size : {0} \cup Sizes, boot : BOOLEAN]

\* Type invariant.  A sweep asks only wallets that were followed, and no page
\* beyond the maximum offset.
SweepTypeOK ==
  /\ now \in 0..MaxTime /\ leaderboard \in {"idle", "stored"} /\ started \in BOOLEAN
  /\ isTracked \subseteq Wallets /\ nicheTracked \subseteq Wallets
  /\ holdings \in [Wallets -> [Assets -> {0} \cup Sizes]]
  /\ positions \in [Wallets -> [Assets -> {NoRow} \cup {PositionRow(s) : s \in {0} \cup Sizes}]]
  /\ \A w \in Wallets, a \in Assets : Range(history[w][a]) \subseteq HistoryType
  /\ sweep # NoSweep => /\ DOMAIN sweep.answer \subseteq Wallets
                      /\ sweep.offset \in [DOMAIN sweep.answer -> 0..Done]
                      /\ \A w \in DOMAIN sweep.answer :
                           Range(sweep.answer[w]) \subseteq [asset : Assets, size : Sizes]
=============================================================================
