--------------------------- MODULE SignalGeneration ---------------------------
(***************************************************************************)
(* Signal generation: app/signals/generator.py around the pure evaluation  *)
(* of app/consensus/engine.py.  A cycle expires signals, groups the fresh  *)
(* position events of the tracked wallets by outcome token, evaluates each *)
(* group and reinforces the ACTIVE signal on its token or inserts a new    *)
(* one, in one transaction.                                                *)
(*                                                                         *)
(* The cycle runs in a thread that generate() awaits with a timeout.  The  *)
(* timeout abandons the await, not the thread: the job starts its next     *)
(* cycle while the old one still has its transaction, and the signals      *)
(* table has no unique index to stop the two.                              *)
(***************************************************************************)
EXTENDS CoTrading, CategoryScoring, MarketMaker

CONSTANTS
  Wallets,
  Value,            \* dollars each wallet moves in one event
  Assets,           \* outcome tokens
  Markets,
  MarketOf,         \* the market (condition_id) of each token
  CategoryOf,       \* the category of each market
  Quotes,           \* the market facts a load may find, apart from closed
  Freshness,        \* consensus_freshness_hours
  TTL,              \* signal_ttl_hours
  MinTraders,       \* consensus_min_traders
  MinScore,         \* consensus_min_weighted_score
  MinValue,         \* consensus_min_combined_value_usd
  MinLiquidity,     \* signal_min_liquidity_usd
  MinVolume,        \* signal_min_volume_24h_usd
  PriceBand,        \* signal_price_min .. signal_price_max
  MaxSpread,        \* signal_max_spread
  MinHoursToEnd,    \* signal_min_hours_to_end
  Threads,          \* bound: worker threads that can hold a cycle
  NoCycle,          \* a thread without a cycle
  MaxTime,          \* bound: the clock stops here
  MaxEvents,        \* bound: position events
  MaxClosings,      \* bound: markets that close
  MaxTimeouts,      \* bound: cycles that exceed consensus_cycle_timeout_seconds
  MaxFaults         \* bound: cycles that fail

ASSUME GenerationSettings ==
  /\ Freshness \in Nat /\ TTL \in Nat /\ MinTraders \in Nat
  /\ MaxTime \in Nat /\ MaxTimeouts \in Nat /\ MaxFaults \in Nat
  /\ \A w \in Wallets : Value[w] \in Nat
  /\ \A a \in Assets : MarketOf[a] \in Markets

\* A draft of a signal, and the transaction of a cycle: the rows its sweep took,
\* the drafts it loaded, and those it applied, with the row each reinforces.
DraftType == [asset : Assets, traders : Nat, score : Nat]

CycleType ==
  [at : 0..MaxTime, phase : {"expire", "load", "apply"}, expired : SUBSET Nat,
   drafts : SUBSET DraftType, applied : SUBSET [draft : DraftType, row : Nat]]

ASSUME NoCycleIsNoCycle == NoCycle \notin Threads /\ NoCycle \notin CycleType

VARIABLES
  now,        \* the wall clock, in hours
  events,     \* position_history: the non-bootstrap OPENED and INCREASED events
  closed,     \* the markets whose closed flag is set
  rows,       \* signals, by id
  cycle,      \* the transaction of the cycle in each thread, or NoCycle
  awaited,    \* the thread the consensus job awaits, or NoCycle
  timeouts,   \* cycles that timed out so far
  faults      \* cycles that failed so far

vars == <<now, events, closed, rows, cycle, awaited, timeouts, faults>>

Running(c) == cycle[c] # NoCycle

-----------------------------------------------------------------------------
(***************************************************************************)
(* The collectors and the clock.                                           *)
(***************************************************************************)
DetectEvent(w, a) ==
  /\ Cardinality(events) < MaxEvents
  /\ events' = events \cup {[wallet |-> w, asset |-> a, at |-> now]}
  /\ UNCHANGED <<now, closed, rows, cycle, awaited, timeouts, faults>>

CloseMarket(m) ==
  /\ m \notin closed /\ Cardinality(closed) < MaxClosings
  /\ closed' = closed \cup {m}
  /\ UNCHANGED <<now, events, rows, cycle, awaited, timeouts, faults>>

Tick ==
  /\ now < MaxTime
  /\ now' = now + 1
  /\ UNCHANGED <<events, closed, rows, cycle, awaited, timeouts, faults>>

-----------------------------------------------------------------------------
(***************************************************************************)
(* The evaluation of a group, app/consensus/engine.py.                     *)
(***************************************************************************)
\* Mutant: every wallet is a voice of its own.
VoicesOfWallets(group) == {{e \in group : e.wallet = w} : w \in {e.wallet : e \in group}}

\* One voice per independent cluster.
Voices(group) ==
  {{e \in group : ClusterOf(e.wallet) = c} : c \in {ClusterOf(e.wallet) : e \in group}}

\* A contributor counts for its score in the market's own category, less the more it
\* looks like a market maker.
Weight(e) == (CategoryScore(e.wallet, CategoryOf[MarketOf[e.asset]]) * Multiplier(e.wallet)) \div 100

\* A voice is as loud as its strongest member.
Loudness(voice) == Max({Weight(e) : e \in voice})
WeightedScore(group) == SumFunction([voice \in Voices(group) |-> Loudness(voice)])

\* Every event's dollars count, a wallet's repeated ones too.
CombinedEntryValue(group) == SumFunction([e \in group |-> Value[e.wallet]])

\* The market's own filters, on its row as it was loaded.
MarketPasses(isClosed, q) ==
  /\ ~isClosed /\ q.accepting /\ q.hoursToEnd >= MinHoursToEnd
  /\ q.liquidity >= MinLiquidity /\ q.volume >= MinVolume
  /\ q.price \in PriceBand
  /\ q.spread <= MaxSpread

\* All eight filters.  Which one rejects first only matters to the log.
Clears(group, isClosed, q) ==
  /\ MarketPasses(isClosed, q)
  /\ Cardinality(Voices(group)) >= MinTraders
  /\ WeightedScore(group) >= MinScore
  /\ CombinedEntryValue(group) >= MinValue

-----------------------------------------------------------------------------
(***************************************************************************)
(* The cycle.                                                              *)
(***************************************************************************)
NotFound == 0

\* The job's loop starts a cycle when it awaits none.
BeginCycle(c) ==
  /\ awaited = NoCycle /\ ~Running(c)
  /\ awaited' = c
  /\ cycle' = [cycle EXCEPT ![c] = [at |-> now, phase |-> "expire", expired |-> {},
                                    drafts |-> {}, applied |-> {}]]
  /\ UNCHANGED <<now, events, closed, rows, timeouts, faults>>

\* Mutant: only a closed market expires a signal.
DueOnClosingOnly(c) ==
  {i \in DOMAIN rows : rows[i].status = "ACTIVE" /\ MarketOf[rows[i].asset] \in closed}

\* The rows the sweep's UPDATE takes: past their time, or on a closed market.
Due(c) ==
  {i \in DOMAIN rows :
     /\ rows[i].status = "ACTIVE"
     /\ rows[i].created + TTL <= cycle[c].at \/ MarketOf[rows[i].asset] \in closed}

\* Rows that the uncommitted sweep of another cycle has locked.
LockedBy(d) == IF Running(d) THEN cycle[d].expired ELSE {}
LockedFor(c) == UNION {LockedBy(d) : d \in Threads \ {c}}

ExpireSignals(c) ==
  /\ Running(c) /\ cycle[c].phase = "expire"
  /\ Due(c) \cap LockedFor(c) = {}
  /\ cycle' = [cycle EXCEPT ![c].phase = "load", ![c].expired = Due(c)]
  /\ UNCHANGED <<now, events, closed, rows, awaited, timeouts, faults>>

\* The fresh events on a token.  Those detected while the cycle runs count too.
Group(c, a) == {e \in events : e.asset = a /\ e.at >= cycle[c].at - Freshness}

\* The groups that clear the filters are the cycle's drafts.
LoadGroups(c) ==
  /\ Running(c) /\ cycle[c].phase = "load"
  /\ \E quote \in [Markets -> Quotes] :
       LET cleared == {a \in Assets : Clears(Group(c, a), MarketOf[a] \in closed, quote[MarketOf[a]])}
       IN  cycle' = [cycle EXCEPT
             ![c].phase = "apply",
             ![c].drafts = {[asset |-> a, traders |-> Cardinality(Voices(Group(c, a))),
                             score |-> WeightedScore(Group(c, a))] : a \in cleared}]
  /\ UNCHANGED <<now, events, closed, rows, awaited, timeouts, faults>>

\* Mutant: the lookup is by market and takes no notice of the token.
ExistingOnMarket(c, a) ==
  {i \in DOMAIN rows \ cycle[c].expired :
     rows[i].status = "ACTIVE" /\ rows[i].asset # a /\ MarketOf[rows[i].asset] = MarketOf[a]}

\* The ACTIVE signals on the token that the cycle's SELECT finds: the committed
\* ones, less what its own sweep has expired.
Existing(c, a) ==
  {i \in DOMAIN rows \ cycle[c].expired : rows[i].status = "ACTIVE" /\ rows[i].asset = a}

\* Duplicate detection takes any one of them.
ApplyDraft(c, draft) ==
  /\ Running(c) /\ cycle[c].phase = "apply" /\ draft \in cycle[c].drafts
  /\ \E i \in IF Existing(c, draft.asset) = {} THEN {NotFound} ELSE Existing(c, draft.asset) :
       cycle' = [cycle EXCEPT ![c].drafts = @ \ {draft},
                              ![c].applied = @ \cup {[draft |-> draft, row |-> i]}]
  /\ UNCHANGED <<now, events, closed, rows, awaited, timeouts, faults>>

Reinforced(c) == {x \in cycle[c].applied : x.row # NotFound}
Created(c) == {x.draft : x \in cycle[c].applied \ Reinforced(c)}

NewRow(c, draft) ==
  [asset |-> draft.asset, status |-> "ACTIVE", traders |-> draft.traders, score |-> draft.score,
   created |-> cycle[c].at, updated |-> cycle[c].at]

\* A row as the cycle leaves it.  A reinforcement writes the metrics, whatever
\* has become of the status since, and never moves the expiry.
Rewritten(c, i) ==
  LET swept == IF i \in cycle[c].expired THEN [rows[i] EXCEPT !.status = "EXPIRED"] ELSE rows[i]
  IN  IF \E x \in Reinforced(c) : x.row = i
        THEN LET x == CHOOSE x \in Reinforced(c) : x.row = i
             IN  [swept EXCEPT !.traders = x.draft.traders, !.score = x.draft.score,
                               !.updated = cycle[c].at]
        ELSE swept

\* The rows the flush at commit has to wait for.
Awaits(c) == {x.row : x \in Reinforced(c)} \cap LockedFor(c)

\* Mutant: a cycle that ends leaves its job waiting.
StillAwaited(c) == awaited' = awaited

\* The awaited cycle's end lets the job's loop go on; an abandoned one's does not.
NoLongerAwaited(c) == awaited' = IF awaited = c THEN NoCycle ELSE awaited

CommitCycle(c) ==
  /\ Running(c) /\ cycle[c].phase = "apply" /\ cycle[c].drafts = {}
  /\ Awaits(c) = {}
  /\ \E new \in SetToAllKPermutations(Created(c)) :
       /\ Len(new) = Cardinality(Created(c))
       /\ rows' = [i \in DOMAIN rows |-> Rewritten(c, i)]
                    \o [k \in DOMAIN new |-> NewRow(c, new[k])]
  /\ cycle' = [cycle EXCEPT ![c] = NoCycle]
  /\ NoLongerAwaited(c)
  /\ UNCHANGED <<now, events, closed, timeouts, faults>>

\* wait_for gives the await up; the thread goes on.
TimeOut ==
  /\ awaited # NoCycle /\ timeouts < MaxTimeouts
  /\ timeouts' = timeouts + 1
  /\ awaited' = NoCycle
  /\ UNCHANGED <<now, events, closed, rows, cycle, faults>>

\* Two flushes that wait for each other: the database fails one of them.
Deadlocked(c) ==
  /\ Running(c) /\ Awaits(c) # {}
  /\ \E d \in Threads \ {c} : /\ Running(d)
                              /\ Awaits(c) \cap LockedBy(d) # {} /\ Awaits(d) \cap LockedBy(c) # {}

\* An exception rolls the cycle back; the job retries at its next interval.
\* A deadlock may always fail a cycle, other faults only MaxFaults times.
FailCycle(c) ==
  /\ Running(c)
  /\ faults = MaxFaults => Deadlocked(c)
  /\ faults' = Min({faults + 1, MaxFaults})
  /\ cycle' = [cycle EXCEPT ![c] = NoCycle]
  /\ NoLongerAwaited(c)
  /\ UNCHANGED <<now, events, closed, rows, timeouts>>

-----------------------------------------------------------------------------
Init ==
  /\ now = 0
  /\ events = {}
  /\ closed = {}
  /\ rows = <<>>
  /\ cycle = [c \in Threads |-> NoCycle]
  /\ awaited = NoCycle
  /\ timeouts = 0
  /\ faults = 0

Collectors ==
  \/ \E w \in Wallets, a \in Assets : DetectEvent(w, a)
  \/ \E m \in Markets : CloseMarket(m)

Step(c) ==
  \/ BeginCycle(c)
  \/ ExpireSignals(c)
  \/ LoadGroups(c)
  \/ Running(c) /\ \E draft \in cycle[c].drafts : ApplyDraft(c, draft)
  \/ CommitCycle(c)

Cycles == \E c \in Threads : Step(c)

Next == Collectors \/ Tick \/ Cycles \/ TimeOut \/ \E c \in Threads : FailCycle(c)

Spec == Init /\ [][Next]_vars

\* The job is rescheduled after every cycle (app/scheduler/runner.py), threads
\* run, the database breaks deadlocks, and time passes.
FairSpec ==
  /\ Spec
  /\ WF_vars(Cycles) /\ WF_vars(Tick)
  /\ WF_vars(\E c \in Threads : Deadlocked(c) /\ FailCycle(c))

-----------------------------------------------------------------------------
(***************************************************************************)
(* Properties.                                                             *)
(***************************************************************************)
RowType ==
  [asset : Assets, status : {"ACTIVE", "EXPIRED"}, traders : Nat, score : Nat,
   created : 0..MaxTime, updated : 0..MaxTime]

\* Type invariant.
TypeOK ==
  /\ now \in 0..MaxTime
  /\ events \subseteq [wallet : Wallets, asset : Assets, at : 0..MaxTime]
  /\ closed \subseteq Markets
  /\ rows \in Seq(RowType)
  /\ cycle \in [Threads -> CycleType \cup {NoCycle}]
  /\ \A c \in Threads : Running(c) =>
       /\ cycle[c].expired \subseteq DOMAIN rows
       /\ \A x \in cycle[c].applied : x.row \in {NotFound} \cup DOMAIN rows
  /\ awaited \in Threads \cup {NoCycle} /\ (awaited # NoCycle => Running(awaited))
  /\ timeouts \in 0..MaxTimeouts /\ faults \in 0..MaxFaults

\* "At most one ACTIVE signal may exist per (condition_id, asset)"
\* (docs/PHASE3_DESIGN.md, Duplicate detection).  Only the SELECT in
\* _apply_draft upholds it: a cycle that outlives its timeout and the next one
\* both find nothing and both insert.
OneActiveSignal ==
  \A i, j \in DOMAIN rows :
    rows[i].status = "ACTIVE" /\ rows[j].status = "ACTIVE" /\ rows[i].asset = rows[j].asset
      => i = j

\* As long as no cycle has timed out, the sweep, the reinforcements and the
\* rollbacks of one cycle after the other keep one ACTIVE signal per token.
OneActiveWithoutTimeouts == timeouts = 0 => OneActiveSignal

\* The independence fix (docs/PHASE6_DESIGN.md, workstream 1): behind every
\* signal there are events of MinTraders clusters that were fresh when it was
\* last written, so that no operator's wallets alone make or reinforce one,
\* however cycles overlap, time out or are retried.
SignalsAreConsensus ==
  \A i \in DOMAIN rows : \A t \in {rows[i].created, rows[i].updated} :
    Cardinality({ClusterOf(e.wallet) :
                   e \in {x \in events : x.asset = rows[i].asset /\ x.at >= t - Freshness}})
      >= MinTraders

\* A signal's time to live is never extended (docs/PHASE3_DESIGN.md, flag 7):
\* however often it is reinforced, and whatever cycles time out, fail or overlap,
\* in the end no signal whose time has passed is ACTIVE.
SignalsExpire ==
  <>[](\A i \in DOMAIN rows : rows[i].created + TTL <= MaxTime => rows[i].status = "EXPIRED")
=============================================================================
