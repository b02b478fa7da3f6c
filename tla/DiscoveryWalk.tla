---------------------------- MODULE DiscoveryWalk ----------------------------
(***************************************************************************)
(* The first three stages of a discovery sweep (app/discovery): tag the    *)
(* resolved markets with a niche (walk.py), grade every trade ever made on *)
(* a tagged market against its resolution (trades.py), and recompute each  *)
(* wallet's record per niche (stats.py).  The two walks each keep a cursor *)
(* over the condition ids, which are hashes: markets resolve in no order   *)
(* of theirs.  The stages are run one after the other by one job, each in  *)
(* transactions of its own; an exception ends the sweep where it is.       *)
(*                                                                         *)
(* A market is the place of its condition_id in the order of all ids.      *)
(***************************************************************************)
EXTENDS ClvEvidence, Ranking

CONSTANTS
  Wallets,
  Markets,            \* a set of positive integers
  NicheOf,            \* what classify_market_niche makes of a market, or NoNiche
  NoNiche,
  OutcomesOf,         \* bound: the ways a market may end
  Trades,             \* what the Data API lists for the markets, one key each
  BatchSize,          \* discovery_walk_batch_size
  MaxFaults           \* bound: lookups, and sweeps, that fail

Niches == {NicheOf[m] : m \in Markets} \ {NoNiche}
Pairs == Wallets \X Niches

Unresolved == -1
NoWinner == -2      \* a 50-50 resolution: winning_outcome_index is null

ASSUME WalkConstants ==
  /\ \A m \in Markets : OutcomesOf[m] \subseteq {NoWinner, 0, 1}
  /\ Markets \subseteq Nat \ {0} /\ IsFiniteSet(Markets) /\ IsFiniteSet(Trades)
  /\ BatchSize \in Nat \ {0} /\ MaxFaults \in Nat
  /\ \A t \in Trades : /\ t.wallet \in Wallets /\ t.market \in Markets
                       /\ t.side \in {"BUY", "SELL"} /\ t.outcome \in {0, 1}

VARIABLES
  resolution,     \* market_resolutions: Unresolved, NoWinner or the winning outcome
  niches,         \* the markets in discovery_market_niches
  tagCursor,      \* the niche_tagging checkpoint, 0 before the first
  gradeCursor,    \* the trade_grading checkpoint
  grades,         \* niche_trade_grades
  stats,          \* niche_wallet_stats by wallet and niche
  stage,          \* the stage the sweep is at
  batch,          \* the markets whose tags are being looked up
  missed,         \* ghost: the markets a walk skipped because its lookup failed
  faults

walkTables == <<niches, tagCursor, gradeCursor, grades, stats>>
walkVars == <<resolution, walkTables, stage, batch, missed, faults>>

NoStat == [n |-> 0, wins |-> 0]

\* Some of the lookups of a batch may fail; the batch is stored without them.
Lookups(S) ==
  {failed \in SUBSET S : faults + Cardinality(failed) <= MaxFaults}

FailedLookups(failed) ==
  /\ faults' = faults + Cardinality(failed)
  /\ missed' = missed \cup failed

-----------------------------------------------------------------------------
\* The resolutions collector finds out how a market ended; the row stays.
Resolve(m) ==
  /\ resolution[m] = Unresolved
  /\ \E outcome \in OutcomesOf[m] : resolution' = [resolution EXCEPT ![m] = outcome]
  /\ UNCHANGED <<walkTables, stage, batch, missed, faults>>

Resolved == {m \in Markets : resolution[m] # Unresolved}

\* The lower Wilson bound of every record the grades can make, in percent.
WilsonLow == [n \in 0..Cardinality(Trades) |-> [wins \in 0..n |-> WilsonLowPercent(wins, n)]]

\* The next BatchSize of S past a cursor, in the order of the ids.
NextBatch(S, cursor) ==
  LET beyond == {m \in S : m > cursor}
  IN  {m \in beyond : Cardinality({k \in beyond : k <= m}) <= BatchSize}

\* The cursor after a batch; an empty batch leaves it where it is.
Advanced(cursor, S) == IF S = {} THEN cursor ELSE Max(S)

\* Mutant: the walk starts from the first id every time.
TaggableFromStart(cursor) == NextBatch(Resolved, 0)

\* The resolved markets past the cursor, whether or not they have a niche.
Taggable(cursor) == NextBatch(Resolved, cursor)

BeginTagging ==
  /\ stage = "tag"
  /\ batch' = Taggable(tagCursor)
  /\ stage' = "tagging"
  /\ UNCHANGED <<resolution, walkTables, missed, faults>>

\* A looked-up market with a niche is tagged, on conflict do nothing; the cursor
\* passes the whole batch.
CommitTagging ==
  /\ stage = "tagging"
  /\ \E failed \in Lookups(batch) :
       /\ FailedLookups(failed)
       /\ niches' = niches \cup {m \in batch \ failed : NicheOf[m] # NoNiche}
  /\ tagCursor' = Advanced(tagCursor, batch)
  /\ stage' = "grade" /\ batch' = {}
  /\ UNCHANGED <<resolution, gradeCursor, grades, stats>>

\* Mutant: a sale is graded like a purchase.
GradeAnySide(t) ==
  IF resolution[t.market] = NoWinner THEN {}
  ELSE {[trade |-> t, won |-> t.outcome = resolution[t.market]]}

\* Purchases only, and only where one outcome won.
GradeTrade(t) ==
  IF t.side # "BUY" \/ resolution[t.market] = NoWinner THEN {}
  ELSE {[trade |-> t, won |-> t.outcome = resolution[t.market]]}

\* Nothing this stage reads is written by others while its fetches run, except
\* resolutions, and those never change once they are there: one step.
GradeTrades ==
  /\ stage = "grade"
  /\ LET work == NextBatch(niches \cap Resolved, gradeCursor)
     IN  /\ \E failed \in Lookups(work) :
              /\ FailedLookups(failed)
              /\ grades' = grades \cup
                   UNION {GradeTrade(t) : t \in {u \in Trades : u.market \in work \ failed}}
         /\ gradeCursor' = Advanced(gradeCursor, work)
  /\ stage' = "stats"
  /\ UNCHANGED <<resolution, niches, tagCursor, stats, batch>>

\* A wallet's record in a niche, from all its grades.
WalletNicheStat(k) ==
  LET mine == {g \in grades : g.trade.wallet = k[1] /\ NicheOf[g.trade.market] = k[2]}
  IN  [n |-> Cardinality(mine), wins |-> Cardinality({g \in mine : g.won})]

ComputeStats ==
  /\ stage = "stats"
  /\ stats' = [k \in Pairs |-> WalletNicheStat(k)]
  /\ stage' = "promote"
  /\ UNCHANGED <<resolution, niches, tagCursor, gradeCursor, grades, batch, missed, faults>>

\* An exception, or the end of the process, in any stage: what is committed
\* stays, and the next sweep starts with the first stage again.
FailDiscovery ==
  /\ stage # "tag" /\ faults < MaxFaults
  /\ faults' = faults + 1 /\ stage' = "tag" /\ batch' = {}
  /\ UNCHANGED <<resolution, walkTables, missed>>

WalkInit ==
  /\ resolution = [m \in Markets |-> Unresolved]
  /\ niches = {} /\ tagCursor = 0 /\ gradeCursor = 0 /\ grades = {}
  /\ stats = [k \in Pairs |-> NoStat]
  /\ stage = "tag" /\ batch = {} /\ missed = {} /\ faults = 0

Walk == BeginTagging \/ CommitTagging \/ GradeTrades \/ ComputeStats

-----------------------------------------------------------------------------
(***************************************************************************)
(* Properties.                                                             *)
(***************************************************************************)
\* Type invariant of the walks; nothing is tagged without a resolution.
WalkTypeOK ==
  /\ resolution \in [Markets -> {Unresolved, NoWinner, 0, 1}]
  /\ niches \subseteq {m \in Resolved : NicheOf[m] # NoNiche}
  /\ tagCursor \in {0} \cup Markets /\ gradeCursor \in {0} \cup Markets
  /\ grades \subseteq [trade : Trades, won : BOOLEAN]
  /\ stats \in [Pairs -> [n : Nat, wins : Nat]]
  /\ \A k \in Pairs : stats[k].wins <= stats[k].n
  /\ batch \subseteq Resolved /\ missed \subseteq Resolved /\ faults \in 0..MaxFaults

\* The grading walk leaves no tagged market behind it: the tagging walk, which
\* goes on tagging while the other has its own cursor, never tags below it
\* (both stages' checkpoints, app/discovery/walk.py and trades.py).  Every
\* purchase on a market behind the cursor whose trades could be fetched and
\* that one outcome won is graded, and every grade is right.
GradesAreComplete ==
  /\ \A t \in Trades :
       /\ t.market \in niches \ missed /\ t.market <= gradeCursor
       /\ t.side = "BUY" /\ resolution[t.market] # NoWinner
       => \E g \in grades : g.trade = t
  /\ \A g \in grades : /\ g.trade.side = "BUY"
                       /\ resolution[g.trade.market] \in {0, 1}
                       /\ g.won <=> g.trade.outcome = resolution[g.trade.market]

\* A market that resolves ahead of the walk's cursor is tagged, and graded, however many others resolve, lookups fail or sweeps end early.
MarketsAheadAreReached ==
  \A m \in Markets :
    (m \in Resolved /\ m > tagCursor)
      ~> (m <= tagCursor /\ (m \notin niches \/ m <= gradeCursor))
=============================================================================
