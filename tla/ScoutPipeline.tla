---------------------------- MODULE ScoutPipeline ----------------------------
(***************************************************************************)
(* The Scout's predict-then-verify pipeline (app/scout): a daily screen    *)
(* (screening.py), an hourly forward-tracking pass (forward.py) and a      *)
(* daily decay check (decay.py) move each wallet through trader_pipeline.  *)
(* The three jobs are concurrent threads of one process, each in a         *)
(* transaction of its own that sees what others have committed and, with   *)
(* autoflush off, not its own pending writes: a window closed in a run is  *)
(* not among the windows that run counts, and a CLV filled in a run is not *)
(* among the trades that run's windows hold.                               *)
(*                                                                         *)
(* Every time a job reads the clock it moves on, so that a position whose  *)
(* detected_at is at or after a run's `now` is one detected after the run  *)
(* began.  At MaxTime the clock stands still and the jobs go on running.   *)
(* The resolution CLV, which no stage decision reads, is left out.         *)
(***************************************************************************)
EXTENDS ScoutScreening

CONSTANTS
  Wallets,
  Positions,          \* the non-bootstrap OPENED events of position_history
  WalletOf,           \* the wallet that opened each position
  ClusterOf,          \* the event cluster of each position's market
  ClvOf,              \* the forward CLV of each position, an integer
  Histories,          \* the positions of the past a screen may find a wallet with
  Screening,          \* the screen's thresholds, see ScoutScreening
  Horizon,            \* scout_clv_horizon_hours
  ValidationSpan,     \* scout_validation_days
  MinForwardTrades,   \* scout_min_forward_trades
  Confirmations,      \* scout_validation_confirmations
  DecayThreshold,     \* scout_decay_threshold
  DecayWindows,       \* scout_decay_windows
  LatePrices,         \* bound: the positions whose market may have no price at the horizon
  FillCap,            \* scout_clv_fill_max_per_cycle
  NoTxn,              \* a job that is not running
  MaxTime,            \* bound: the clock stops here
  MaxStep,            \* bound: how far the clock moves between two reads
  MaxMoves,           \* bound: a wallet that moved more often is not screened again
  MaxLag,             \* bound: how long a detected position takes to be committed
  MaxFaults           \* bound: runs that may fail

\* The settings' validators (app/config/settings.py), and the bounds.
ASSUME ScoutSettings ==
  /\ Horizon \in Nat \ {0} /\ ValidationSpan \in Nat \ {0}
  /\ MinForwardTrades \in Nat \ {0} /\ FillCap \in Nat
  /\ Confirmations \in Nat \ {0} /\ DecayWindows \in Nat \ {0}
  /\ DecayThreshold \in Int
  /\ {MaxTime, MaxStep, MaxLag, MaxFaults} \subseteq Nat
  /\ \A p \in Positions : WalletOf[p] \in Wallets /\ ClvOf[p] \in Int

VARIABLES
  now,        \* the wall clock
  opened,     \* detected_at of each position, or Never
  priced,     \* the LatePrices with a snapshot at or after the horizon by now
  stage,      \* trader_pipeline.stage, "NONE" before the row exists
  since,      \* metrics.candidate_since
  forward,    \* the positions that have a scout_forward_trades row
  graded,     \* those whose clv_horizon is set
  windows,    \* scout_validation_windows of each wallet, oldest first
  log,        \* scout_stage_transitions of each wallet, oldest first
  screen,     \* the screen's transaction, or NoTxn
  track,      \* the forward-tracking transaction, or NoTxn
  decay,      \* the decay check's transaction, or NoTxn
  faults      \* runs that failed so far

world == <<opened, priced>>
tables == <<stage, since, forward, graded, windows, log>>
vars == <<now, world, tables, screen, track, decay, faults>>

Never == -1
Vetted == {"CANDIDATE", "WATCHLIST"}
Monitored == {"VALIDATED", "DECAYING"}
Stages == Vetted \cup Monitored \cup {"REJECTED", "NONE"}

\* datetime.now() at the start of a run.
Later == {IF now + d < MaxTime THEN now + d ELSE MaxTime : d \in 1..MaxStep}

-----------------------------------------------------------------------------
(***************************************************************************)
(* The collectors.                                                         *)
(***************************************************************************)
\* The positions collector commits an OPENED event, detected up to MaxLag ago.
OpenPosition(p) ==
  /\ opened[p] = Never /\ now < MaxTime
  /\ \E lag \in 0..MaxLag : lag <= now /\ opened' = [opened EXCEPT ![p] = now - lag]
  /\ UNCHANGED <<now, priced, tables, screen, track, decay, faults>>

\* The first price snapshot at or after the position's horizon, if ever.
SnapshotPrice(p) ==
  /\ p \in LatePrices \ priced /\ opened[p] # Never /\ opened[p] + Horizon <= now
  /\ priced' = priced \cup {p}
  /\ UNCHANGED <<now, opened, tables, screen, track, decay, faults>>

HasPrice(p) == p \in LatePrices => p \in priced

-----------------------------------------------------------------------------
(***************************************************************************)
(* Windows, shared by forward tracking and the decay check.                *)
(***************************************************************************)
\* Mutant: every window starts where the attempt began.
WindowStartAtEntry(w) == since[w]

WindowStart(w) == IF windows[w] = <<>> THEN since[w] ELSE Last(windows[w]).end

\* The trades a window holds: recorded, entered in it, with a known CLV.
Held(w, at) ==
  {p \in graded : WalletOf[p] = w /\ WindowStart(w) <= opened[p] /\ opened[p] < at}

Clvs(S) == [p \in S |-> ClvOf[p]]

Window(w, at) ==
  [start |-> WindowStart(w), end |-> at, passed |-> CiLowAboveZero(Clvs(Held(w, at))),
   healthy |-> Total(Clvs(Held(w, at))) >= DecayThreshold * Cardinality(Held(w, at))]

\* Mutant: the window needs more trades than the minimum.
ReadyAbove(w, at) ==
  /\ at - WindowStart(w) >= ValidationSpan
  /\ Cardinality({ClusterOf[p] : p \in Held(w, at)}) > MinForwardTrades

\* The window spans enough days and enough distinct events.
Ready(w, at) ==
  /\ at - WindowStart(w) >= ValidationSpan
  /\ Cardinality({ClusterOf[p] : p \in Held(w, at)}) >= MinForwardTrades

PassingWindows(w) == Cardinality({i \in DOMAIN windows[w] : windows[w][i].passed})

\* Sub-threshold windows in a row, from the latest one back.
Streak(w) ==
  LET n == Len(windows[w])
  IN  Cardinality({i \in 1..n : \A j \in i..n : ~windows[w][j].healthy})

\* Forward tracking's verdict on a wallet whose window closed.
Vet(w, window) ==
  CASE ~window.passed -> "REJECTED"
    [] /\ window.passed /\ stage[w] = "WATCHLIST"
       /\ PassingWindows(w) >= Confirmations -> "VALIDATED"
    [] OTHER -> "WATCHLIST"

\* Mutant: one sub-threshold window is enough to demote.
MonitorWithoutStreak(w, window) ==
  CASE window.healthy -> "VALIDATED"
    [] ~window.healthy /\ stage[w] = "DECAYING" /\ Streak(w) >= 2 * DecayWindows -> "REJECTED"
    [] OTHER -> "DECAYING"

\* The decay check's verdict on a wallet whose window closed.
Monitor(w, window) ==
  CASE window.healthy -> "VALIDATED"
    [] ~window.healthy /\ stage[w] = "DECAYING" /\ Streak(w) >= 2 * DecayWindows -> "REJECTED"
    [] ~window.healthy /\ stage[w] = "VALIDATED" /\ Streak(w) >= DecayWindows -> "DECAYING"
    [] OTHER -> stage[w]

Verdict(w, window) == IF stage[w] \in Vetted THEN Vet(w, window) ELSE Monitor(w, window)

\* The windows a run closes for the wallets it tracks, and where each leads.
Closing(tracked, at) ==
  [w \in {v \in Wallets : stage[v] \in tracked /\ Ready(v, at)} |->
     [window |-> Window(w, at), from |-> stage[w], to |-> Verdict(w, Window(w, at))]]

\* The rows a run's windows and transitions write when it commits.
WriteClosing(closing) ==
  /\ windows' = [w \in Wallets |-> IF w \in DOMAIN closing
                                     THEN Append(windows[w], closing[w].window)
                                     ELSE windows[w]]
  /\ stage' = [w \in Wallets |-> IF w \in DOMAIN closing THEN closing[w].to ELSE stage[w]]
  /\ log' = [w \in Wallets |->
               IF w \in DOMAIN closing /\ closing[w].from # closing[w].to
                 THEN Append(log[w], [from |-> closing[w].from, to |-> closing[w].to])
                 ELSE log[w]]

-----------------------------------------------------------------------------
(***************************************************************************)
(* Stage 1, the screen.                                                    *)
(***************************************************************************)
\* Mutant: a wallet that is in the pipeline is screened like any other.
ScreenAll(screened) == screened

\* A wallet in the middle of the pipeline is left alone.
Screenable(screened) == {w \in screened : stage[w] \in {"NONE", "REJECTED"}}

\* The run reads trader_pipeline once and decides on their positions which of
\* the wallets with history enter and which fail; a run with no wallet to
\* decide writes nothing.
BeginScreen ==
  /\ screen = NoTxn
  /\ \E screened \in SUBSET Wallets : \E past \in [Screenable(screened) -> Histories], t \in Later :
       LET entered == {w \in DOMAIN past : PassesScreen(past[w], t, Screening)}
       IN  /\ DOMAIN past # {}
           /\ \A w \in screened : Len(log[w]) <= MaxMoves
           /\ now' = t
           /\ screen' = [at |-> t, from |-> stage, entered |-> entered,
                         failed |-> DOMAIN past \ entered]
  /\ UNCHANGED <<world, tables, track, decay, faults>>

ScreenVerdict(w) ==
  IF w \in screen.entered THEN "CANDIDATE"
  ELSE IF w \in screen.failed THEN "REJECTED"
  ELSE stage[w]

\* A repeated rejection is not logged.
ScreenLog(w) ==
  IF w \in screen.entered \cup screen.failed /\ screen.from[w] # ScreenVerdict(w)
    THEN Append(log[w], [from |-> screen.from[w], to |-> ScreenVerdict(w)])
    ELSE log[w]

\* Mutant: the windows of the earlier attempt are not deleted.
CommitScreenKeepingWindows ==
  /\ screen # NoTxn
  /\ stage' = [w \in Wallets |-> ScreenVerdict(w)]
  /\ since' = [w \in Wallets |-> IF w \in screen.entered THEN screen.at ELSE since[w]]
  /\ forward' = {p \in forward : WalletOf[p] \notin screen.entered}
  /\ graded' = {p \in graded : WalletOf[p] \notin screen.entered}
  /\ log' = [w \in Wallets |-> ScreenLog(w)]
  /\ screen' = NoTxn
  /\ UNCHANGED <<now, world, windows, track, decay, faults>>

\* A wallet that passes starts an attempt: its anchor is the run's time and the
\* rows of an earlier attempt are deleted.
CommitScreen ==
  /\ screen # NoTxn
  /\ stage' = [w \in Wallets |-> ScreenVerdict(w)]
  /\ since' = [w \in Wallets |-> IF w \in screen.entered THEN screen.at ELSE since[w]]
  /\ forward' = {p \in forward : WalletOf[p] \notin screen.entered}
  /\ graded' = {p \in graded : WalletOf[p] \notin screen.entered}
  /\ windows' = [w \in Wallets |-> IF w \in screen.entered THEN <<>> ELSE windows[w]]
  /\ log' = [w \in Wallets |-> ScreenLog(w)]
  /\ screen' = NoTxn
  /\ UNCHANGED <<now, world, track, decay, faults>>

-----------------------------------------------------------------------------
(***************************************************************************)
(* Stage 2, forward tracking.                                              *)
(***************************************************************************)
BeginTracking ==
  /\ track = NoTxn
  /\ \E t \in Later :
       /\ now' = t
       /\ track' = [at |-> t, phase |-> "read", added |-> {}, filled |-> {}, closing |-> <<>>]
  /\ UNCHANGED <<world, tables, screen, decay, faults>>

\* Positions the wallets being vetted opened since their attempt began.
NewForwardTrades ==
  {p \in Positions \ forward : /\ opened[p] # Never
                               /\ stage[WalletOf[p]] \in Vetted
                               /\ opened[p] >= since[WalletOf[p]]}

\* The trades past their horizon without a CLV, the oldest FillCap of them.
DueFills(at) ==
  LET due == {p \in forward \ graded : opened[p] + Horizon <= at}
  IN  {taken \in SUBSET due : /\ Cardinality(taken) = Min({Cardinality(due), FillCap})
                              /\ \A p \in taken, q \in due \ taken : opened[p] <= opened[q]}

\* The run's SELECTs: new trades, fills (a trade with no price yet stays
\* pending) and closing windows, which see neither the trades just added nor
\* the CLVs just set.  They are one step, since what other jobs commit between
\* them is what they commit before or after: the tracked wallets are this
\* job's alone, and a row deleted in between is gone when the run commits.
ReadTracking ==
  /\ track # NoTxn /\ track.phase = "read"
  /\ \E taken \in DueFills(track.at) :
       track' = [track EXCEPT !.phase = "commit", !.added = NewForwardTrades,
                              !.filled = {p \in taken : HasPrice(p)},
                              !.closing = Closing(Vetted, track.at)]
  /\ UNCHANGED <<now, world, tables, screen, decay, faults>>

\* The filled rows the screen has deleted since they were read.
Vanished == track.filled \ forward

\* Mutant: a filled row is written back whether or not it still exists.
CommitTrackingBlindly ==
  /\ track # NoTxn /\ track.phase = "commit"
  /\ forward' = forward \cup track.added
  /\ graded' = graded \cup track.filled
  /\ WriteClosing(track.closing)
  /\ track' = NoTxn
  /\ UNCHANGED <<now, world, since, screen, decay, faults>>

\* The UPDATE of a row the screen has deleted matches nothing.
CommitTracking ==
  /\ track # NoTxn /\ track.phase = "commit"
  /\ forward' = forward \cup track.added
  /\ graded' = graded \cup (track.filled \ Vanished)
  /\ WriteClosing(track.closing)
  /\ track' = NoTxn
  /\ UNCHANGED <<now, world, since, screen, decay, faults>>

\* An exception rolls the run back: a lost connection, or the stale-row error
\* that an UPDATE matching nothing raises when its rows go one by one.
FailTracking ==
  /\ track # NoTxn
  /\ \/ faults < MaxFaults /\ faults' = faults + 1
     \/ track.phase = "commit" /\ Vanished # {} /\ UNCHANGED faults
  /\ track' = NoTxn
  /\ UNCHANGED <<now, world, tables, screen, decay>>

-----------------------------------------------------------------------------
(***************************************************************************)
(* Stage 3, the decay check.                                               *)
(***************************************************************************)
BeginDecay ==
  /\ decay = NoTxn
  /\ \E t \in Later :
       /\ now' = t
       /\ decay' = [at |-> t, phase |-> "read", closing |-> <<>>]
  /\ UNCHANGED <<world, tables, screen, track, faults>>

ReadDecay ==
  /\ decay # NoTxn /\ decay.phase = "read"
  /\ decay' = [decay EXCEPT !.phase = "commit",
                            !.closing = Closing(Monitored, decay.at)]
  /\ UNCHANGED <<now, world, tables, screen, track, faults>>

CommitDecay ==
  /\ decay # NoTxn /\ decay.phase = "commit"
  /\ WriteClosing(decay.closing)
  /\ decay' = NoTxn
  /\ UNCHANGED <<now, world, since, forward, graded, screen, track, faults>>

-----------------------------------------------------------------------------
Init ==
  /\ now = 0
  /\ opened = [p \in Positions |-> Never]
  /\ priced = {}
  /\ stage = [w \in Wallets |-> "NONE"]
  /\ since = [w \in Wallets |-> 0]
  /\ forward = {}
  /\ graded = {}
  /\ windows = [w \in Wallets |-> <<>>]
  /\ log = [w \in Wallets |-> <<>>]
  /\ screen = NoTxn /\ track = NoTxn /\ decay = NoTxn
  /\ faults = 0

Collectors == \E p \in Positions : OpenPosition(p) \/ SnapshotPrice(p)
Screen == BeginScreen \/ CommitScreen
Tracking == BeginTracking \/ ReadTracking \/ CommitTracking
Decay == BeginDecay \/ ReadDecay \/ CommitDecay

Next == Collectors \/ Screen \/ Tracking \/ FailTracking \/ Decay

Spec == Init /\ [][Next]_vars

\* run_jobs reschedules the tracking job after every run, failed or not
\* (app/scheduler/runner.py); a run that loses a row to the screen fails or
\* commits, and the screen cannot keep that up.  Nothing is assumed of the
\* collectors, the screen or the decay check.
FairSpec == Spec /\ WF_vars(Tracking)

-----------------------------------------------------------------------------
(***************************************************************************)
(* Properties.                                                             *)
(***************************************************************************)
WindowType == [start : 0..MaxTime, end : 0..MaxTime, passed : BOOLEAN, healthy : BOOLEAN]
MoveType == [from : Stages, to : Stages \ {"NONE"}]
ClosingType == [window : WindowType, from : Stages, to : Stages]
IsClosing(f) == DOMAIN f \subseteq Wallets /\ \A w \in DOMAIN f : f[w] \in ClosingType

\* Type invariant.  Only a row of scout_forward_trades has a CLV, and only a
\* position that was opened has a row.
TypeOK ==
  /\ now \in 0..MaxTime /\ faults \in 0..MaxFaults
  /\ opened \in [Positions -> {Never} \cup 0..MaxTime]
  /\ stage \in [Wallets -> Stages]
  /\ since \in [Wallets -> 0..MaxTime]
  /\ forward \subseteq {p \in Positions : opened[p] # Never}
  /\ priced \subseteq {p \in LatePrices : opened[p] # Never}
  /\ graded \subseteq {p \in forward : HasPrice(p)}
  /\ windows \in [Wallets -> Seq(WindowType)]
  /\ log \in [Wallets -> Seq(MoveType)]
  /\ screen # NoTxn => screen \in [at : 0..MaxTime, from : [Wallets -> Stages],
                                   entered : SUBSET Wallets, failed : SUBSET Wallets]
  /\ track # NoTxn => /\ track.at \in 0..MaxTime
                      /\ track.phase \in {"read", "commit"}
                      /\ track.added \subseteq Positions /\ track.filled \subseteq Positions
                      /\ IsClosing(track.closing)
  /\ decay # NoTxn => /\ decay.at \in 0..MaxTime /\ decay.phase \in {"read", "commit"}
                      /\ IsClosing(decay.closing)

\* Each stage has one owner (TraderPipeline; docs/SCOUT_DESIGN.md, flag 11):
\* though the three jobs overlap and none locks a row, no verdict is lost.  The
\* transition log of a wallet is one unbroken path from nothing to its stage.
TransitionLogIsPath ==
  \A w \in Wallets :
    /\ \A i \in DOMAIN log[w] :
         log[w][i].from = (IF i = 1 THEN "NONE" ELSE log[w][i - 1].to)
    /\ stage[w] = (IF log[w] = <<>> THEN "NONE" ELSE Last(log[w]).to)

\* A verdict rests on its own attempt alone: what is recorded for a wallet being
\* vetted or monitored began no earlier than candidate_since, a candidate has
\* no verdict behind it, a watched wallet has only passing windows
\* (_count_passing_windows relies on it), a validated one at least
\* `Confirmations` of them (run_historical_screen's clean slate).
VerdictsRestOnThisAttempt ==
  \A w \in Wallets :
    /\ stage[w] \in Vetted \cup Monitored =>
         /\ \A p \in forward : WalletOf[p] = w => opened[p] >= since[w]
         /\ \A i \in DOMAIN windows[w] : windows[w][i].start >= since[w]
    /\ stage[w] = "CANDIDATE" => windows[w] = <<>>
    /\ stage[w] = "WATCHLIST" => /\ windows[w] # <<>>
                                 /\ \A i \in DOMAIN windows[w] : windows[w][i].passed
    /\ stage[w] \in Monitored => PassingWindows(w) >= Confirmations

\* The windows of an attempt tile the time since it began: each starts where
\* the one before ended, so that no trade counts as evidence twice
\* (current_window_start), whichever job closes them.
WindowsTile ==
  \A w \in Wallets :
    /\ stage[w] \in Vetted \cup Monitored /\ windows[w] # <<>> => Head(windows[w]).start = since[w]
    /\ \A i \in DOMAIN windows[w] :
         /\ windows[w][i].end - windows[w][i].start >= ValidationSpan
         /\ i > 1 => windows[w][i].start = windows[w][i - 1].end

\* "A wallet can never be DECAYING with a streak shorter than
\* SCOUT_DECAY_WINDOWS" (app/scout/decay.py, module docstring).
DecayingMeansDecayed ==
  \A w \in Wallets : stage[w] = "DECAYING" => Streak(w) >= DecayWindows

\* The trades a candidate can be judged on once the clock stands still.
Evidence(w) ==
  {p \in Positions : /\ WalletOf[p] = w /\ opened[p] # Never /\ HasPrice(p)
                     /\ since[w] <= opened[p] /\ opened[p] < MaxTime}

\* A candidate with enough evidence is eventually judged (run_forward_tracking
\* on every cycle): the unseen fills only postpone the verdict, and neither a
\* failed run nor the screen's deletes can withhold it.
CandidatesGetVerdict ==
  \A w \in Wallets :
    (/\ stage[w] = "CANDIDATE" /\ now - since[w] >= ValidationSpan
     /\ Cardinality({ClusterOf[p] : p \in Evidence(w)}) >= MinForwardTrades)
      ~> stage[w] # "CANDIDATE"
=============================================================================
