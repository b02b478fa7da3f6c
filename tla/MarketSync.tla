----------------------------- MODULE MarketSync -----------------------------
(***************************************************************************)
(* The market collector (app/collectors/markets.py) and the resolution     *)
(* collector (app/collectors/resolutions.py), two jobs that read a work    *)
(* list, ask the exchange and write the answers, each in a transaction of  *)
(* its own, while the markets go on and the other job writes the same      *)
(* rows.  Gamma's bulk query drops some markets once they are over; those  *)
(* are asked for one by one at the CLOB, a bounded number per run.         *)
(*                                                                         *)
(* last_synced_at is kept as the order of the rows it induces.             *)
(***************************************************************************)
EXTENDS MarketFeed, SequencesExt

CONSTANTS
  Held,             \* the markets some open position row is on
  EndDateOrder,     \* the markets past their end_date, oldest first
  Archived,         \* the markets the bulk query drops once they are over
  MaxIds,           \* markets_max_condition_ids_per_cycle
  BacklogMin,       \* markets_backlog_min_per_cycle
  FallbackCap,      \* markets_clob_fallback_max_per_cycle
  MaxResolutions,   \* resolutions_max_per_cycle
  NoTxn,            \* the job is not running
  MaxFaults         \* bound: runs that raise, or end with the process

ASSUME SyncConstants ==
  /\ IsFiniteSet(Markets) /\ EndDateOrder \in Seq(Markets) /\ IsInjective(EndDateOrder)
  /\ Held \subseteq Markets /\ Archived \subseteq Markets
  /\ MaxIds \in Nat \ {0} /\ BacklogMin \in 1..MaxIds
  /\ FallbackCap \in Nat \ {0} /\ MaxResolutions \in Nat /\ MaxFaults \in Nat

VARIABLES
  rotation,         \* the known markets by last_synced_at, oldest first
  resolution,       \* market_resolutions: how each market settled, or "none"
  sync,             \* the running market collection
  resolving,        \* the running resolution collection
  faults

syncVars == <<feedVars, rotation, resolution, sync, resolving, faults>>

\* The first n members of S in the given order.
FirstIn(order, S, n) ==
  {order[i] : i \in {j \in DOMAIN order :
     order[j] \in S /\ Cardinality({k \in 1..j : order[k] \in S}) <= n}}

SyncedBefore(m, k) ==
  \E i, j \in DOMAIN rotation : i < j /\ rotation[i] = m /\ rotation[j] = k

\* The rows of S get the same last_synced_at: they come last, in any order, and
\* the others keep theirs.
Synced(S) ==
  {after \in SetToSeqs(Markets) :
     \A i, j \in DOMAIN after : i < j =>
       /\ after[i] \in S => after[j] \in S
       /\ after[j] \notin S => SyncedBefore(after[i], after[j])}

-----------------------------------------------------------------------------
(***************************************************************************)
(* The market collector.                                                   *)
(***************************************************************************)
\* Mutant: the positions may take the whole budget.
PositionsBudgetWhole == MaxIds

\* What the markets of open positions may take of the budget.
PositionsBudget == Larger(MaxIds - BacklogMin, 0)

\* Held markets up to their budget, in no order, then the other open ones by
\* last_synced_at.
WorkLists ==
  LET open == {m \in Markets : ~closed[m]}
      held == Held \cap open
      taken == {S \in SUBSET held :
                  Cardinality(S) = Smaller(Cardinality(held), PositionsBudget)}
  IN  {S \cup FirstIn(rotation, open \ S, MaxIds - Cardinality(S)) : S \in taken}

BeginSync ==
  /\ sync = NoTxn
  /\ \E asked \in WorkLists : asked # {} /\ sync' = [stage |-> "asked", asked |-> asked]
  /\ UNCHANGED <<feedVars, rotation, resolution, resolving, faults>>

\* What the exchange says of a market.
Answer(m) == [closed : {life[m] # "trading"}, price : PriceOf(m)]

Listed(S) == {m \in S : m \notin Archived \/ life[m] = "trading"}

AnswerSync ==
  /\ sync # NoTxn /\ sync.stage = "asked"
  /\ \E answer \in [Listed(sync.asked) -> UNION {Answer(m) : m \in Markets}] :
       /\ \A m \in DOMAIN answer : answer[m] \in Answer(m)
       /\ sync' = [stage |-> "answered", asked |-> sync.asked, answer |-> answer]
  /\ UNCHANGED <<feedVars, rotation, resolution, resolving, faults>>

\* The rows after an answer; a snapshot is added for each.
Store(answer) ==
  /\ closed' = [m \in Markets |-> IF m \in DOMAIN answer THEN answer[m].closed ELSE closed[m]]
  /\ reopened' = reopened \cup Reopened
  /\ rotation' \in Synced(DOMAIN answer)

\* Mutant: the bulk answer is taken for complete.
MissingNone(run) == {}

\* The asked markets Gamma left out.
Missing(run) == run.asked \ DOMAIN run.answer

\* The n least condition ids of S.
Smallest(S, n) == {m \in S : Cardinality({k \in S : k <= m}) <= n}

PersistSync ==
  /\ sync # NoTxn /\ sync.stage = "answered"
  /\ Store(sync.answer)
  /\ quoted' = [m \in Markets |->
                  IF m \in DOMAIN sync.answer THEN sync.answer[m].price ELSE quoted[m]]
  /\ LET missing == Smallest(Missing(sync), FallbackCap)
     IN  sync' = IF missing = {} THEN NoTxn ELSE [stage |-> "missing", asked |-> missing]
  /\ UNCHANGED <<life, resolution, resolving, faults>>

\* The CLOB is asked for the first of them, and knows their state, no price.
AnswerFallback ==
  /\ sync # NoTxn /\ sync.stage = "missing"
  /\ sync' = [stage |-> "fallback",
              answer |-> [m \in sync.asked |-> [closed |-> life[m] # "trading"]]]
  /\ UNCHANGED <<feedVars, rotation, resolution, resolving, faults>>

PersistFallback ==
  /\ sync # NoTxn /\ sync.stage = "fallback"
  /\ Store(sync.answer) /\ sync' = NoTxn
  /\ UNCHANGED <<life, quoted, resolution, resolving, faults>>

-----------------------------------------------------------------------------
(***************************************************************************)
(* The resolution collector.                                               *)
(***************************************************************************)
\* Past their end date, open and without a row, the oldest first.
ResolutionWork ==
  FirstIn(EndDateOrder, {m \in Markets : ~closed[m] /\ resolution[m] = "none"}, MaxResolutions)

BeginResolutions ==
  /\ resolving = NoTxn /\ ResolutionWork # {}
  /\ resolving' = [stage |-> "asked", asked |-> ResolutionWork]
  /\ UNCHANGED <<feedVars, rotation, resolution, sync, faults>>

\* Mutant: a market that has ended is taken for settled.
ClassifyEnded(m) == IF life[m] = "trading" THEN "none" ELSE "void"

\* still_open and ambiguous answers write nothing.
ClassifyResolution(m) == IF life[m] \in Settlements THEN life[m] ELSE "none"

AnswerResolutions ==
  /\ resolving # NoTxn /\ resolving.stage = "asked"
  /\ resolving' = [stage |-> "answered",
                   found |-> [m \in resolving.asked |-> ClassifyResolution(m)]]
  /\ UNCHANGED <<feedVars, rotation, resolution, sync, faults>>

\* The row and the closing of its market are one transaction.
PersistResolutions ==
  /\ resolving # NoTxn /\ resolving.stage = "answered"
  /\ LET found == {m \in DOMAIN resolving.found : resolving.found[m] # "none"}
     IN  /\ resolution' = [m \in Markets |->
                             IF m \in found THEN resolving.found[m] ELSE resolution[m]]
         /\ closed' = [m \in Markets |-> m \in found \/ closed[m]]
         /\ rotation' \in Synced(found)
  /\ resolving' = NoTxn
  /\ UNCHANGED <<life, quoted, reopened, sync, faults>>

\* A request that raises, or the end of the process, ends the run; what it has
\* committed stays.
FailCollection ==
  /\ faults < MaxFaults /\ faults' = faults + 1
  /\ \/ sync # NoTxn /\ sync' = NoTxn /\ UNCHANGED resolving
     \/ resolving # NoTxn /\ resolving' = NoTxn /\ UNCHANGED sync
  /\ UNCHANGED <<feedVars, rotation, resolution>>

-----------------------------------------------------------------------------
SyncInit ==
  /\ FeedInit
  /\ rotation \in SetToSeqs(Markets)
  /\ resolution = [m \in Markets |-> "none"]
  /\ sync = NoTxn /\ resolving = NoTxn /\ faults = 0

Sync == BeginSync \/ AnswerSync \/ PersistSync \/ AnswerFallback \/ PersistFallback
Resolutions == BeginResolutions \/ AnswerResolutions \/ PersistResolutions

SyncNext ==
  \/ Exchange /\ UNCHANGED <<rotation, resolution, sync, resolving, faults>>
  \/ Sync \/ Resolutions \/ FailCollection

\* run_jobs runs both again after their intervals; the exchange need not move.
SyncSpec ==
  SyncInit /\ [][SyncNext]_syncVars /\ WF_syncVars(Sync) /\ WF_syncVars(Resolutions)

-----------------------------------------------------------------------------
(***************************************************************************)
(* Properties.                                                             *)
(***************************************************************************)
\* Type invariant.  A resolution row says how its market settled; a collection
\* asks for no more than its budget.
SyncTypeOK ==
  /\ life \in [Markets -> {"trading", "ended"} \cup Settlements]
  /\ closed \in [Markets -> BOOLEAN] /\ quoted \in [Markets -> {NoPrice} \cup Prices]
  /\ \A m \in Markets : resolution[m] \in {"none", life[m]} \ {"trading", "ended"}
  /\ rotation \in SetToSeqs(Markets)
  /\ sync # NoTxn =>
       Cardinality(IF "asked" \in DOMAIN sync THEN sync.asked ELSE DOMAIN sync.answer) <= MaxIds

\* The two collectors keep what MarketFeed promises: no market is closed before
\* it stops trading, none is opened again more than once although two jobs
\* overwrite the row with answers of different age, and each ends up closed
\* although the bulk query drops it, the budget of a run is smaller than the
\* backlog, runs fail, and a market with a resolution row is never looked at by
\* the resolution collector again (_get_work_list of both, _upsert_market).
Feed == INSTANCE MarketFeed
ImplementsFeed == Feed!FeedSpec

\* No market waits for ever while it is open: whatever is held and whatever the
\* other markets do, each is stored again and again until it is closed for good
\* (the rotation and the backlog reservation of _get_work_list).
Stored(m) == (PersistSync \/ PersistFallback) /\ m \in DOMAIN sync.answer

OpenMarketsAreSynced ==
  \A m \in Markets : <>[]closed[m] \/ []<><<Stored(m)>>_syncVars
=============================================================================
