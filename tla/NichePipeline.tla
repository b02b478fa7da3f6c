---------------------------- MODULE NichePipeline ----------------------------
(***************************************************************************)
(* A whole discovery sweep (app/discovery/sweep.py): the walks of          *)
(* DiscoveryWalk, then the promotion of (wallet, niche) pairs              *)
(* (promotion.py) and their forward tracking (forward.py).  What the       *)
(* position collector records of a wallet depends on niche_tracked, which  *)
(* promotion sets; what forward tracking makes of it depends on the        *)
(* market's niche, which the tagging walk knows only once the market has   *)
(* resolved.  Sessions have autoflush off: a stage's SELECTs do not see    *)
(* the rows it has added or changed.                                       *)
(*                                                                         *)
(* At MaxTime the clock stands still and the sweeps go on running.         *)
(***************************************************************************)
EXTENDS DiscoveryWalk

CONSTANTS
  Positions,            \* the non-bootstrap OPENED events that may be recorded
  OpenedBy,             \* the wallet of each
  MarketOf,             \* its market
  ClvOf,                \* its forward CLV, an integer
  Unpriced,             \* the positions whose market has no price at the horizon
  MinTrades,            \* discovery_min_trades
  MinWinrate,           \* discovery_min_wilson_winrate, in percent
  MaxNicheTracked,      \* discovery_max_niche_tracked_wallets
  Horizon,              \* discovery_clv_horizon_hours
  ValidationSpan,       \* discovery_validation_days
  MinForwardTrades,     \* discovery_min_forward_trades
  Confirmations,        \* discovery_validation_confirmations
  FillCap,              \* discovery_clv_fill_max_per_cycle
  MaxTime               \* bound: the clock stops here

ASSUME PipelineConstants ==
  /\ \A p \in Positions : OpenedBy[p] \in Wallets /\ MarketOf[p] \in Markets /\ ClvOf[p] \in Int
  /\ MinTrades \in Nat /\ MinWinrate \in 0..99 /\ MaxNicheTracked \in Nat
  /\ Horizon \in Nat /\ ValidationSpan \in Nat /\ Confirmations \in Nat
  /\ MinForwardTrades \in Nat \ {0} /\ FillCap \in Nat /\ MaxTime \in Nat

VARIABLES
  now,            \* the wall clock
  detected,       \* detected_at of each position's event, or Never
  nicheTracked,   \* the wallets with wallets.niche_tracked
  pipeline,       \* niche_trader_pipeline by wallet and niche
  forward,        \* the positions with a niche_forward_trades row
  graded,         \* those whose clv_horizon is set
  windows,        \* niche_validation_windows by wallet and niche, oldest first
  runAt           \* the forward run's `now`

pipelineVars == <<nicheTracked, pipeline, forward, graded, windows>>
vars == <<walkVars, now, detected, pipelineVars, runAt>>

Never == -1
Absent == [stage |-> "NONE", since |-> Never]
Vetted == {"CANDIDATE", "WATCHLIST"}
Active == Vetted \cup {"VALIDATED"}

\* A row of the pipeline; candidate_since is kept in its metrics.
PipelineRow == [stage : Active \cup {"REJECTED"}, since : {Never} \cup 0..MaxTime]

\* A row of niche_validation_windows.
WindowRow == [start : 0..MaxTime, end : 0..MaxTime, passed : BOOLEAN]

KeyOf(p) == <<OpenedBy[p], NicheOf[MarketOf[p]]>>

-----------------------------------------------------------------------------
(***************************************************************************)
(* Around the sweep.                                                       *)
(***************************************************************************)
Tick ==
  /\ now < MaxTime /\ now' = now + 1
  /\ UNCHANGED <<walkVars, detected, pipelineVars, runAt>>

\* The position collector commits the OPENED event of a wallet it polls; the
\* market may have resolved since the wallet opened the position.
OpenPosition(p) ==
  /\ detected[p] = Never /\ OpenedBy[p] \in nicheTracked
  /\ detected' = [detected EXCEPT ![p] = now]
  /\ UNCHANGED <<walkVars, now, pipelineVars, runAt>>

-----------------------------------------------------------------------------
(***************************************************************************)
(* Promotion: one transaction.                                             *)
(***************************************************************************)
\* The pairs with a record that were never judged, or were rejected.
Judged == {k \in Pairs : stats[k].n > 0 /\ pipeline[k].stage \in {"NONE", "REJECTED"}}

Passes(k) == stats[k].n >= MinTrades /\ WilsonLowAbove(stats[k].wins, stats[k].n, MinWinrate)

\* The pair's row after the run; a rejection carries no candidate_since.
Promoted(k) ==
  CASE k \in Judged /\ Passes(k)  -> [stage |-> "CANDIDATE", since |-> now]
    [] k \in Judged /\ ~Passes(k) -> [stage |-> "REJECTED", since |-> Never]
    [] OTHER -> pipeline[k]

\* Mutant: only the pairs the run judged are ranked.
RankedJudged == [w \in {k[1] : k \in Judged} |->
                   Max({WilsonLow[stats[k].n][stats[k].wins] : k \in {j \in Judged : j[1] = w}})]

\* The wallets with an active pair, by their best bound.  The SELECT sees the
\* stages as they were committed before this run.
Ranked ==
  LET active == {k \in Pairs : pipeline[k].stage \in Active /\ stats[k].n > 0}
  IN  [w \in {k[1] : k \in active} |->
         Max({WilsonLow[stats[k].n][stats[k].wins] : k \in {j \in active : j[1] = w}})]

Promote ==
  /\ stage = "promote"
  /\ pipeline' = [k \in Pairs |-> Promoted(k)]
  /\ nicheTracked' \in TopSets(Ranked, MaxNicheTracked)
  /\ stage' = "forward"
  /\ UNCHANGED <<resolution, walkTables, batch, missed, faults, now, detected,
                 forward, graded, windows, runAt>>

-----------------------------------------------------------------------------
(***************************************************************************)
(* Forward tracking: its clock is read first, then its tables.             *)
(***************************************************************************)
BeginForward ==
  /\ stage = "forward"
  /\ runAt' = now /\ stage' = "forwarding"
  /\ UNCHANGED <<resolution, walkTables, batch, missed, faults, now, detected, pipelineVars>>

\* Mutant: the market's own tag is not looked up.
NewForwardUntagged ==
  {p \in Positions \ forward :
     /\ detected[p] # Never /\ pipeline[KeyOf(p)].stage \in Vetted
     /\ detected[p] >= pipeline[KeyOf(p)].since}

\* Detected events of a pair being vetted, since it became a candidate, on a
\* market the walk has tagged with the pair's niche.
NewForwardTrades ==
  {p \in Positions \ forward :
     /\ detected[p] # Never /\ MarketOf[p] \in niches
     /\ pipeline[KeyOf(p)].stage \in Vetted /\ detected[p] >= pipeline[KeyOf(p)].since}

\* The trades past their horizon without a CLV, the oldest FillCap of them.
DueFills ==
  LET due == {p \in forward \ graded : detected[p] + Horizon <= runAt}
  IN  {taken \in SUBSET due : /\ Cardinality(taken) = Min({Cardinality(due), FillCap})
                              /\ \A p \in taken, q \in due \ taken : detected[p] <= detected[q]}

\* Mutant: every window starts where the pair became a candidate.
WindowStartAtEntry(k) == pipeline[k].since

\* The end of the pair's last window, whichever attempt it belongs to.
WindowStart(k) == IF windows[k] = <<>> THEN pipeline[k].since ELSE Last(windows[k]).end

\* The trades of the pair's window with a known CLV.
Held(k) ==
  {p \in graded : KeyOf(p) = k /\ WindowStart(k) <= detected[p] /\ detected[p] < runAt}

Closing ==
  {k \in Pairs : /\ pipeline[k].stage \in Vetted
                 /\ WindowReadyToClose(WindowStart(k), runAt, ValidationSpan,
                      EffectiveSampleSize([p \in Held(k) |-> MarketOf[p]]), MinForwardTrades)}

Passed(k) == CiLowAboveZero([p \in Held(k) |-> ClvOf[p]])

Window(k) == [start |-> WindowStart(k), end |-> runAt, passed |-> Passed(k)]

\* The pair's passing windows of every attempt, without the one just closed.
CountPassingWindows(k) == Cardinality({i \in DOMAIN windows[k] : windows[k][i].passed})

\* Mutant: a failed window does not reject.
VerdictForgiving(k) ==
  IF pipeline[k].stage = "WATCHLIST" /\ CountPassingWindows(k) >= Confirmations
    THEN "VALIDATED" ELSE "WATCHLIST"

Verdict(k) ==
  IF ~Passed(k) THEN "REJECTED"
  ELSE IF pipeline[k].stage = "WATCHLIST" /\ CountPassingWindows(k) >= Confirmations
    THEN "VALIDATED" ELSE "WATCHLIST"

\* Every SELECT sees the tables as they were before this run: what it has just
\* recorded or filled is not part of its windows.
CommitForward ==
  /\ stage = "forwarding"
  /\ forward' = forward \cup NewForwardTrades
  /\ \E taken \in DueFills : graded' = graded \cup (taken \ Unpriced)
  /\ windows' = [k \in Pairs |-> IF k \in Closing THEN Append(windows[k], Window(k)) ELSE windows[k]]
  /\ pipeline' = [k \in Pairs |-> IF k \in Closing THEN [pipeline[k] EXCEPT !.stage = Verdict(k)]
                                  ELSE pipeline[k]]
  /\ runAt' = Never /\ stage' = "tag"
  /\ UNCHANGED <<resolution, walkTables, batch, missed, faults, now, detected, nicheTracked>>

-----------------------------------------------------------------------------
Init ==
  /\ WalkInit
  /\ now = 0 /\ detected = [p \in Positions |-> Never]
  /\ nicheTracked = {} /\ pipeline = [k \in Pairs |-> Absent]
  /\ forward = {} /\ graded = {} /\ windows = [k \in Pairs |-> <<>>] /\ runAt = Never

pipelineRest == <<now, detected, pipelineVars>>

World == Tick \/ (\E p \in Positions : OpenPosition(p))
         \/ (\E m \in Markets : Resolve(m) /\ UNCHANGED <<pipelineRest, runAt>>)

\* run_discovery_sweep: the stages in their fixed order.
Sweep == (Walk /\ UNCHANGED <<pipelineRest, runAt>>) \/ Promote \/ BeginForward \/ CommitForward

Next == World \/ Sweep \/ (FailDiscovery /\ runAt' = Never /\ UNCHANGED pipelineRest)

\* run_jobs starts the sweep again after every interval, failed or not; nothing
\* is assumed of the wallets, the resolutions or the lookups.
Spec == Init /\ [][Next]_vars /\ WF_vars(Sweep)

-----------------------------------------------------------------------------
(***************************************************************************)
(* Properties.                                                             *)
(***************************************************************************)
\* Type invariant.  Only a recorded trade has a CLV, and only an event on a
\* market that has been tagged, hence has resolved, is recorded.
TypeOK ==
  /\ WalkTypeOK
  /\ now \in 0..MaxTime /\ runAt \in {Never} \cup 0..MaxTime
  /\ stage \in {"tag", "tagging", "grade", "stats", "promote", "forward", "forwarding"}
  /\ detected \in [Positions -> {Never} \cup 0..MaxTime]
  /\ nicheTracked \subseteq Wallets
  /\ pipeline \in [Pairs -> {Absent} \cup PipelineRow]
  /\ graded \subseteq forward \ Unpriced
  /\ \A p \in forward : detected[p] # Never /\ MarketOf[p] \in niches
  /\ windows \in [Pairs -> Seq(WindowRow)]

\* The windows of a pair follow each other without overlap, so that no trade is
\* evidence twice (current_window_start), also over several attempts: the first
\* window after a rejection starts where the failed one ended, not at the new
\* candidate_since.
WindowsFollow ==
  \A k \in Pairs : \A i \in DOMAIN windows[k] :
    /\ windows[k][i].end - windows[k][i].start >= ValidationSpan
    /\ i > 1 => windows[k][i].start = windows[k][i - 1].end

\* A pair is validated by windows that passed: the last two did, and there are
\* more than `Confirmations` of them, since the run that validates does not
\* count the window it closes (_count_passing_windows).  A rejected attempt's
\* windows count as well, so that no more is promised of this attempt.
ValidatedIsEarned ==
  \A k \in Pairs : pipeline[k].stage = "VALIDATED" =>
    /\ Len(windows[k]) >= 2 /\ Last(windows[k]).passed /\ windows[k][Len(windows[k]) - 1].passed
    /\ Cardinality({i \in DOMAIN windows[k] : windows[k][i].passed}) > Confirmations

\* An active wallet that outranks all others is polled from then on: the cap is
\* filled from scratch on every run, and a candidate the run that promotes it
\* does not see yet is tracked by the next (run_niche_promotion).
Bounds(w) ==
  {WilsonLow[stats[k].n][stats[k].wins] :
     k \in {j \in Pairs : j[1] = w /\ pipeline[j].stage \in Active /\ stats[j].n > 0}}

Outranks(w) ==
  Bounds(w) # {} /\ \A v \in Wallets \ {w} : \A b \in Bounds(v) : b < Max(Bounds(w))

BestIsPolled == \A w \in Wallets : <>[]Outranks(w) => <>[](w \in nicheTracked)
=============================================================================
