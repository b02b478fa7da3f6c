------------------------ MODULE ScoutPipelineProofs ------------------------
(***************************************************************************)
(* Theorems about the Scout, for every set of wallets and positions, every *)
(* screen, every CLV and every setting.                                    *)
(*                                                                         *)
(* The properties speak of the committed tables, but a run decides on what *)
(* it read earlier.  What makes them hold is ownership: a wallet that a    *)
(* running screen decides on is out of the pipeline, one whose window the  *)
(* tracking run closes is being vetted, one whose window the decay check   *)
(* closes is being monitored, and none of the three can change what        *)
(* another one read.  The inductive invariant says so, and that what a run *)
(* holds is still what it would read now (RowOK).                          *)
(***************************************************************************)
EXTENDS ScoutPipeline, SequenceTheorems, FiniteSetTheorems, TLAPS

Active == Vetted \cup Monitored

PassedIn(ws) == {i \in DOMAIN ws : ws[i].passed}
SickTail(ws) == {i \in 1..Len(ws) : \A j \in i..Len(ws) : ~ws[j].healthy}
StartOf(si, ws) == IF ws = <<>> THEN si ELSE Last(ws).end

\* The log lg leads from nothing to the stage st.
IsPath(lg, st) ==
  /\ \A i \in DOMAIN lg : lg[i].from = (IF i = 1 THEN "NONE" ELSE lg[i - 1].to)
  /\ st = (IF lg = <<>> THEN "NONE" ELSE Last(lg).to)

\* The windows ws follow each other, and the attempt that began at si.
Tiles(ws) ==
  \A i \in DOMAIN ws : /\ ws[i].end - ws[i].start >= ValidationSpan
                       /\ i > 1 => ws[i].start = ws[i - 1].end

BeganAt(si, ws) ==
  /\ \A i \in DOMAIN ws : ws[i].start >= si /\ ws[i].end >= si
  /\ ws # <<>> => ws[1].start = si

\* The stage st is what the windows ws earned.
Earned(st, ws) ==
  /\ st = "CANDIDATE" => ws = <<>>
  /\ st = "WATCHLIST" => ws # <<>> /\ \A i \in DOMAIN ws : ws[i].passed
  /\ st \in Monitored => Cardinality(PassedIn(ws)) >= Confirmations
  /\ st = "DECAYING" => Cardinality(SickTail(ws)) >= DecayWindows

\* What holds of a wallet's row, its windows and its log.
WalletOK(st, si, ws, lg) ==
  /\ st \in Stages /\ si \in 0..MaxTime
  /\ ws \in Seq(WindowType) /\ lg \in Seq(MoveType)
  /\ IsPath(lg, st) /\ Tiles(ws) /\ Earned(st, ws)
  /\ st \in Active => BeganAt(si, ws)

\* The verdicts a window can lead to.
LeadsTo(st, ws, window, to) ==
  \/ st \in Vetted /\ ~window.passed /\ to = "REJECTED"
  \/ st \in Vetted /\ window.passed /\ to = "WATCHLIST"
  \/ /\ st = "WATCHLIST" /\ window.passed /\ to = "VALIDATED"
     /\ Cardinality(PassedIn(ws)) >= Confirmations
  \/ st \in Monitored /\ to = "VALIDATED"
  \/ st = "DECAYING" /\ to = "REJECTED"
  \/ st = "DECAYING" /\ ~window.healthy /\ to = "DECAYING"
  \/ /\ st = "VALIDATED" /\ ~window.healthy /\ to = "DECAYING"
     /\ Cardinality(SickTail(ws)) >= DecayWindows

\* A window that a run is about to write, for a wallet in this state.
RowOK(st, si, ws, row) ==
  /\ row \in ClosingType /\ row.from = st
  /\ row.window.start = StartOf(si, ws)
  /\ row.window.end - row.window.start >= ValidationSpan
  /\ LeadsTo(st, ws, row.window, row.to)

WalletsOK ==
  /\ stage \in [Wallets -> Stages] /\ since \in [Wallets -> 0..MaxTime]
  /\ windows \in [Wallets -> Seq(WindowType)] /\ log \in [Wallets -> Seq(MoveType)]
  /\ \A w \in Wallets : WalletOK(stage[w], since[w], windows[w], log[w])

PositionsOK ==
  /\ now \in 0..MaxTime /\ faults \in 0..MaxFaults
  /\ opened \in [Positions -> {Never} \cup 0..MaxTime]
  /\ priced \subseteq {p \in LatePrices : opened[p] # Never}
  /\ forward \subseteq {p \in Positions : opened[p] # Never}
  /\ graded \subseteq {p \in forward : HasPrice(p)}
  /\ \A p \in forward : stage[WalletOf[p]] \in Active => opened[p] >= since[WalletOf[p]]

ScreenOK ==
  screen # NoTxn =>
    /\ screen \in [at : 0..MaxTime, from : [Wallets -> Stages],
                   entered : SUBSET Wallets, failed : SUBSET Wallets]
    /\ \A w \in screen.entered \cup screen.failed :
         stage[w] \notin Active /\ screen.from[w] = stage[w]

\* The windows of a run that tracks the wallets in the stages `tracked`.
HoldsClosing(closing, tracked) ==
  /\ DOMAIN closing \subseteq Wallets
  /\ \A w \in DOMAIN closing : /\ stage[w] \in tracked
                               /\ RowOK(stage[w], since[w], windows[w], closing[w])

TrackOK ==
  track # NoTxn =>
    /\ track = [at |-> track.at, phase |-> track.phase, added |-> track.added,
                filled |-> track.filled, closing |-> track.closing]
    /\ track.at \in 0..MaxTime /\ track.phase \in {"read", "commit"}
    /\ track.added \subseteq {p \in Positions : opened[p] # Never}
    /\ \A p \in track.added : /\ stage[WalletOf[p]] \in Vetted
                              /\ opened[p] >= since[WalletOf[p]]
    /\ track.filled \subseteq {p \in Positions : HasPrice(p)}
    /\ HoldsClosing(track.closing, Vetted)

DecayOK ==
  decay # NoTxn =>
    /\ decay = [at |-> decay.at, phase |-> decay.phase, closing |-> decay.closing]
    /\ decay.at \in 0..MaxTime /\ decay.phase \in {"read", "commit"}
    /\ HoldsClosing(decay.closing, Monitored)

IInv == WalletsOK /\ PositionsOK /\ ScreenOK /\ TrackOK /\ DecayOK

-----------------------------------------------------------------------------
(***************************************************************************)
(* Lemmas about windows and logs.                                          *)
(***************************************************************************)
\* A sequence with one more element.
LEMMA Appended ==
  ASSUME NEW S, NEW s \in Seq(S), NEW x \in S
  PROVE  /\ Append(s, x) \in Seq(S)
         /\ Len(s) \in Nat /\ Len(Append(s, x)) = Len(s) + 1
         /\ DOMAIN s = 1..Len(s) /\ DOMAIN Append(s, x) = 1..(Len(s) + 1)
         /\ \A i \in 1..Len(s) : Append(s, x)[i] = s[i] /\ s[i] \in S
         /\ Append(s, x)[Len(s) + 1] = x
         /\ Last(Append(s, x)) = x
         /\ Append(s, x) # <<>>
         /\ s = <<>> <=> Len(s) = 0
<1>1. /\ Append(s, x) \in Seq(S)
      /\ Len(Append(s, x)) = Len(s) + 1
      /\ \A i \in 1..Len(s) : Append(s, x)[i] = s[i]
      /\ Append(s, x)[Len(s) + 1] = x
  BY AppendProperties
<1>2. /\ Len(s) \in Nat /\ DOMAIN s = 1..Len(s)
      /\ DOMAIN Append(s, x) = 1..(Len(s) + 1)
  BY <1>1, LenProperties
<1>3. /\ s # <<>> => Len(s) \in Nat \ {0}
      /\ Len(<<>>) = 0
  BY EmptySeq
<1>4. \A i \in 1..Len(s) : s[i] \in S
  BY ElementOfSeq
<1>5. Append(s, x) # <<>>
  <2>1. Len(Append(s, x)) # 0
    BY <1>1, <1>2
  <2>. QED
    BY <1>3, <2>1, Zenon
<1>. QED
  BY <1>1, <1>2, <1>3, <1>4, <1>5 DEF Last

\* What was passed stays passed, and the sets that are counted are finite.
LEMMA PassedGrows ==
  ASSUME NEW ws \in Seq(WindowType), NEW window \in WindowType
  PROVE  /\ Cardinality(PassedIn(ws)) \in Nat
         /\ Cardinality(PassedIn(Append(ws, window))) \in Nat
         /\ Cardinality(PassedIn(Append(ws, window))) >= Cardinality(PassedIn(ws))
<1> DEFINE more == Append(ws, window)
<1>1. /\ Len(ws) \in Nat /\ DOMAIN ws = 1..Len(ws) /\ DOMAIN more = 1..(Len(ws) + 1)
      /\ \A i \in 1..Len(ws) : more[i] = ws[i]
  BY Appended
<1>. HIDE DEF more
<1>2. PassedIn(ws) \subseteq PassedIn(more) /\ PassedIn(more) \subseteq 1..(Len(ws) + 1)
  BY <1>1 DEF PassedIn
<1>3. IsFiniteSet(1..(Len(ws) + 1))
  BY <1>1, FS_Interval
<1>4. IsFiniteSet(PassedIn(more))
  BY <1>2, <1>3, FS_Subset
<1>5. /\ IsFiniteSet(PassedIn(ws))
      /\ Cardinality(PassedIn(ws)) <= Cardinality(PassedIn(more))
  BY <1>2, <1>4, FS_Subset
<1>. QED
  BY <1>4, <1>5, FS_CardinalityType DEF more

\* One more window below the threshold makes the streak no shorter.
LEMMA StreakGrows ==
  ASSUME NEW ws \in Seq(WindowType), NEW window \in WindowType, ~window.healthy
  PROVE  /\ Cardinality(SickTail(ws)) \in Nat
         /\ Cardinality(SickTail(Append(ws, window))) \in Nat
         /\ Cardinality(SickTail(Append(ws, window))) >= Cardinality(SickTail(ws))
<1> DEFINE more == Append(ws, window)
           n == Len(ws)
<1>1. /\ n \in Nat /\ Len(more) = n + 1
      /\ \A i \in 1..n : more[i] = ws[i]
      /\ more[n + 1] = window
  BY Appended
<1>. HIDE DEF more, n
<1>2. SickTail(ws) \subseteq SickTail(more)
  <2> SUFFICES ASSUME NEW i \in 1..n, \A j \in i..n : ~ws[j].healthy,
                      NEW j \in i..(n + 1)
               PROVE  i \in 1..(n + 1) /\ ~more[j].healthy
    BY <1>1 DEF SickTail, n
  <2>1. i \in 1..(n + 1)
    BY <1>1
  <2>2. CASE j = n + 1
    BY <1>1, <2>1, <2>2
  <2>3. CASE j # n + 1
    <3>1. j \in i..n /\ j \in 1..n
      BY <1>1, <2>3
    <3>. QED
      BY <1>1, <2>1, <3>1
  <2>. QED
    BY <2>2, <2>3
<1>3. SickTail(more) \subseteq 1..(n + 1)
  BY <1>1 DEF SickTail
<1>4. IsFiniteSet(1..(n + 1))
  BY <1>1, FS_Interval
<1>5. IsFiniteSet(SickTail(more))
  BY <1>3, <1>4, FS_Subset
<1>6. /\ IsFiniteSet(SickTail(ws))
      /\ Cardinality(SickTail(ws)) <= Cardinality(SickTail(more))
  BY <1>2, <1>5, FS_Subset
<1>. QED
  BY <1>5, <1>6, FS_CardinalityType DEF more

\* A window that starts where the last one ended extends the tiling.
LEMMA TilesAppend ==
  ASSUME NEW si \in 0..MaxTime, NEW ws \in Seq(WindowType), NEW window \in WindowType,
         Tiles(ws), window.start = StartOf(si, ws),
         window.end - window.start >= ValidationSpan
  PROVE  /\ Tiles(Append(ws, window))
         /\ BeganAt(si, ws) => BeganAt(si, Append(ws, window))
<1> DEFINE more == Append(ws, window)
           n == Len(ws)
<1>1. /\ n \in Nat /\ DOMAIN ws = 1..n /\ DOMAIN more = 1..(n + 1)
      /\ \A i \in 1..n : more[i] = ws[i] /\ ws[i] \in WindowType
      /\ more[n + 1] = window /\ more # <<>>
      /\ ws = <<>> <=> n = 0
  BY Appended
<1>2. n > 0 => window.start = ws[n].end
  BY <1>1 DEF StartOf, Last
<1>3. n = 0 => window.start = si
  BY <1>1 DEF StartOf
<1>. HIDE DEF more, n
<1>4. Tiles(more)
  <2> SUFFICES ASSUME NEW i \in 1..(n + 1)
               PROVE  /\ more[i].end - more[i].start >= ValidationSpan
                      /\ i > 1 => more[i].start = more[i - 1].end
    BY <1>1 DEF Tiles
  <2>1. CASE i \in 1..n
    <3>1. ws[i].end - ws[i].start >= ValidationSpan /\ (i > 1 => ws[i].start = ws[i - 1].end)
      BY <1>1, <2>1 DEF Tiles
    <3>2. i > 1 => i - 1 \in 1..n
      BY <1>1, <2>1
    <3>. QED
      BY <1>1, <2>1, <3>1, <3>2
  <2>2. CASE i = n + 1
    <3>1. i > 1 => i - 1 = n /\ n \in 1..n /\ n > 0
      BY <1>1, <2>2
    <3>. QED
      BY <1>1, <1>2, <2>2, <3>1
  <2>. QED
    BY <1>1, <2>1, <2>2
<1>5. ASSUME BeganAt(si, ws) PROVE BeganAt(si, more)
  <2>1. window.start \in Int /\ window.end \in Int /\ si \in Int
    BY DEF WindowType
  <2>2. window.start >= si
    <3>1. CASE n = 0
      BY <1>3, <2>1, <3>1
    <3>2. CASE n > 0
      <4>1. n \in 1..n
        BY <1>1, <3>2
      <4>2. ws[n].end >= si
        BY <1>1, <1>5, <4>1 DEF BeganAt
      <4>. QED
        BY <1>2, <3>2, <4>2
    <3>. QED
      BY <1>1, <3>1, <3>2
  <2>3. window.end >= si
    BY <2>1, <2>2, ScoutSettings
  <2>4. \A i \in 1..(n + 1) : more[i].start >= si /\ more[i].end >= si
    <3> SUFFICES ASSUME NEW i \in 1..(n + 1) PROVE more[i].start >= si /\ more[i].end >= si
      OBVIOUS
    <3>1. CASE i \in 1..n
      BY <1>1, <1>5, <3>1 DEF BeganAt
    <3>2. CASE i = n + 1
      BY <1>1, <2>2, <2>3, <3>2
    <3>. QED
      BY <1>1, <3>1, <3>2
  <2>5. more[1].start = si
    <3>1. CASE n = 0
      BY <1>1, <1>3, <3>1
    <3>2. CASE n > 0
      <4>1. 1 \in 1..n /\ ws # <<>>
        BY <1>1, <3>2
      <4>. QED
        BY <1>1, <1>5, <4>1 DEF BeganAt
    <3>. QED
      BY <1>1, <3>1, <3>2
  <2>. QED
    BY <1>1, <2>4, <2>5 DEF BeganAt
<1>. QED
  BY <1>4, <1>5 DEF more

\* The verdict on a window is earned once the window is written.
LEMMA VerdictIsEarned ==
  ASSUME NEW st, NEW ws \in Seq(WindowType), NEW window \in WindowType, NEW to,
         Earned(st, ws), LeadsTo(st, ws, window, to)
  PROVE  Earned(to, Append(ws, window))
<1> DEFINE more == Append(ws, window)
           n == Len(ws)
<1>1. /\ n \in Nat /\ DOMAIN ws = 1..n /\ DOMAIN more = 1..(n + 1)
      /\ \A i \in 1..n : more[i] = ws[i]
      /\ more[n + 1] = window /\ more # <<>>
      /\ ws = <<>> <=> n = 0
  BY Appended
<1>2. /\ Cardinality(PassedIn(ws)) \in Nat /\ Cardinality(PassedIn(more)) \in Nat
      /\ Cardinality(PassedIn(more)) >= Cardinality(PassedIn(ws))
  BY PassedGrows
<1>3. ~window.healthy =>
        /\ Cardinality(SickTail(ws)) \in Nat /\ Cardinality(SickTail(more)) \in Nat
        /\ Cardinality(SickTail(more)) >= Cardinality(SickTail(ws))
  BY StreakGrows
<1>. HIDE DEF more, n
<1>4. to # "CANDIDATE"
  BY DEF LeadsTo
<1>5. ASSUME to = "WATCHLIST" PROVE \A i \in DOMAIN more : more[i].passed
  <2>1. st \in Vetted /\ window.passed
    BY <1>5 DEF LeadsTo
  <2>2. \A i \in 1..n : ws[i].passed
    BY <1>1, <2>1 DEF Earned, Vetted
  <2>3. \A i \in 1..(n + 1) : i \in 1..n \/ i = n + 1
    BY <1>1
  <2>. QED
    BY <1>1, <2>1, <2>2, <2>3
<1>6. ASSUME to \in Monitored PROVE Cardinality(PassedIn(more)) >= Confirmations
  <2>1. Cardinality(PassedIn(ws)) >= Confirmations
    BY <1>6 DEF LeadsTo, Earned, Monitored, Vetted
  <2>. QED
    BY <1>2, <2>1, ScoutSettings
<1>7. ASSUME to = "DECAYING" PROVE Cardinality(SickTail(more)) >= DecayWindows
  <2>1. ~window.healthy
    BY <1>7 DEF LeadsTo
  <2>2. Cardinality(SickTail(ws)) >= DecayWindows
    BY <1>7 DEF LeadsTo, Earned
  <2>. QED
    BY <1>3, <2>1, <2>2, ScoutSettings
<1>. QED
  BY <1>1, <1>4, <1>5, <1>6, <1>7 DEF Earned, more

\* A move from where the path ends extends the path.
LEMMA PathAppend ==
  ASSUME NEW lg \in Seq(MoveType), NEW st, NEW move \in MoveType,
         IsPath(lg, st), move.from = st
  PROVE  Append(lg, move) \in Seq(MoveType) /\ IsPath(Append(lg, move), move.to)
<1> DEFINE more == Append(lg, move)
           n == Len(lg)
<1>1. /\ more \in Seq(MoveType)
      /\ n \in Nat /\ DOMAIN lg = 1..n /\ DOMAIN more = 1..(n + 1)
      /\ \A i \in 1..n : more[i] = lg[i]
      /\ more[n + 1] = move /\ more # <<>> /\ Last(more) = move
      /\ lg = <<>> <=> n = 0
  BY Appended
<1>2. st = IF n = 0 THEN "NONE" ELSE lg[n].to
  BY <1>1 DEF IsPath, Last
<1>. HIDE DEF more, n
<1>3. ASSUME NEW i \in 1..(n + 1)
      PROVE  more[i].from = IF i = 1 THEN "NONE" ELSE more[i - 1].to
  <2>1. CASE i \in 1..n
    <3>1. lg[i].from = IF i = 1 THEN "NONE" ELSE lg[i - 1].to
      BY <1>1, <2>1 DEF IsPath
    <3>2. i # 1 => i - 1 \in 1..n
      BY <1>1, <2>1
    <3>. QED
      BY <1>1, <2>1, <3>1, <3>2
  <2>2. CASE i = n + 1
    <3>1. i # 1 => i - 1 = n /\ n \in 1..n /\ n # 0
      BY <1>1, <2>2
    <3>2. i = 1 => n = 0
      BY <1>1, <2>2
    <3>. QED
      BY <1>1, <1>2, <2>2, <3>1, <3>2
  <2>. QED
    BY <1>1, <2>1, <2>2
<1>4. IsPath(more, move.to)
  BY <1>1, <1>3 DEF IsPath
<1>. QED
  BY <1>1, <1>4 DEF more

\* A wallet whose window is written, with the move it leads to.
LEMMA ClosedWallet ==
  ASSUME NEW st, NEW si, NEW ws, NEW lg, NEW row,
         WalletOK(st, si, ws, lg), st \in Active, RowOK(st, si, ws, row)
  PROVE  WalletOK(row.to, si, Append(ws, row.window),
                  IF row.from # row.to
                    THEN Append(lg, [from |-> row.from, to |-> row.to]) ELSE lg)
<1> DEFINE window == row.window
           to == row.to
           more == IF row.from # to THEN Append(lg, [from |-> row.from, to |-> to]) ELSE lg
<1>1. /\ st \in Stages /\ si \in 0..MaxTime /\ ws \in Seq(WindowType) /\ lg \in Seq(MoveType)
      /\ IsPath(lg, st) /\ Tiles(ws) /\ Earned(st, ws) /\ BeganAt(si, ws)
  BY DEF WalletOK
<1>2. /\ window \in WindowType /\ row.from = st
      /\ window.start = StartOf(si, ws) /\ window.end - window.start >= ValidationSpan
      /\ LeadsTo(st, ws, window, to)
  BY DEF RowOK, ClosingType
<1>3. to \in Stages \ {"NONE"}
  BY <1>2 DEF LeadsTo, Stages, Vetted, Monitored
<1>. HIDE DEF window, to
<1>4. Append(ws, window) \in Seq(WindowType)
  BY <1>1, <1>2, Appended
<1>5. Tiles(Append(ws, window)) /\ BeganAt(si, Append(ws, window))
  BY <1>1, <1>2, TilesAppend
<1>6. Earned(to, Append(ws, window))
  BY <1>1, <1>2, VerdictIsEarned
<1>7. more \in Seq(MoveType) /\ IsPath(more, to)
  <2>1. CASE row.from # to
    <3> DEFINE move == [from |-> row.from, to |-> to]
    <3>1. move \in MoveType /\ move.from = st /\ move.to = to
      BY <1>1, <1>2, <1>3 DEF MoveType
    <3>. HIDE DEF move
    <3>2. Append(lg, move) \in Seq(MoveType) /\ IsPath(Append(lg, move), to)
      BY <1>1, <3>1, PathAppend
    <3>. QED
      BY <2>1, <3>2 DEF move
  <2>2. CASE row.from = to
    BY <1>1, <1>2, <2>2
  <2>. QED
    BY <2>1, <2>2
<1>. QED
  BY <1>1, <1>3, <1>4, <1>5, <1>6, <1>7 DEF WalletOK, window, to

-----------------------------------------------------------------------------
(***************************************************************************)
(* What the jobs read.                                                     *)
(***************************************************************************)
\* The clock a run reads is in range.
LEMMA LaterInRange ==
  ASSUME now \in 0..MaxTime, NEW t \in Later
  PROVE  t \in 0..MaxTime
BY ScoutSettings DEF Later

\* A verdict is one of those a window can lead to.
LEMMA VerdictLeads ==
  ASSUME NEW w \in Wallets, stage[w] \in Active, windows[w] \in Seq(WindowType),
         NEW window \in WindowType
  PROVE  LeadsTo(stage[w], windows[w], window, Verdict(w, window))
<1>. DEFINE st == stage[w]
            ws == windows[w]
<1>1. PassingWindows(w) = Cardinality(PassedIn(ws))
  BY DEF PassingWindows, PassedIn
<1>2. Streak(w) = Cardinality(SickTail(ws))
  BY DEF Streak, SickTail
<1>3. CASE st \in Vetted
  <2>1. Verdict(w, window) = Vet(w, window)
    BY <1>3 DEF Verdict
  <2>2. \/ ~window.passed /\ Vet(w, window) = "REJECTED"
        \/ /\ window.passed /\ st = "WATCHLIST" /\ PassingWindows(w) >= Confirmations
           /\ Vet(w, window) = "VALIDATED"
        \/ window.passed /\ Vet(w, window) = "WATCHLIST"
    BY DEF Vet
  <2>. QED
    BY <1>1, <1>3, <2>1, <2>2 DEF LeadsTo
<1>4. CASE st \in Monitored
  <2>1. Verdict(w, window) = Monitor(w, window)
    BY <1>4 DEF Verdict, Vetted, Monitored
  <2>2. \/ Monitor(w, window) = "VALIDATED"
        \/ st = "DECAYING" /\ Monitor(w, window) = "REJECTED"
        \/ /\ ~window.healthy /\ st = "VALIDATED" /\ Streak(w) >= DecayWindows
           /\ Monitor(w, window) = "DECAYING"
        \/ ~window.healthy /\ Monitor(w, window) = st
    BY DEF Monitor
  <2>. QED
    BY <1>2, <1>4, <2>1, <2>2 DEF LeadsTo, Monitored
<1>. QED
  BY <1>3, <1>4 DEF Active

\* The windows a run reads are windows it may write.
LEMMA ClosingHolds ==
  ASSUME IInv, NEW tracked, tracked \in {Vetted, Monitored}, NEW at \in 0..MaxTime
  PROVE  HoldsClosing(Closing(tracked, at), tracked)
<1>. DEFINE closing == Closing(tracked, at)
<1>1. /\ DOMAIN closing = {v \in Wallets : stage[v] \in tracked /\ Ready(v, at)}
      /\ \A w \in DOMAIN closing :
           closing[w] = [window |-> Window(w, at), from |-> stage[w],
                         to |-> Verdict(w, Window(w, at))]
  BY DEF Closing
<1>. HIDE DEF closing
<1>2. ASSUME NEW w \in DOMAIN closing
      PROVE  stage[w] \in tracked /\ RowOK(stage[w], since[w], windows[w], closing[w])
  <2>1. w \in Wallets /\ stage[w] \in tracked /\ Ready(w, at) /\ stage[w] \in Active
    BY <1>1 DEF Active
  <2>2. /\ stage[w] \in Stages /\ since[w] \in 0..MaxTime
        /\ windows[w] \in Seq(WindowType)
    BY <2>1 DEF IInv, WalletsOK
  <2>3. WindowStart(w) = StartOf(since[w], windows[w])
    BY DEF WindowStart, StartOf
  <2>4. WindowStart(w) \in 0..MaxTime
    <3>1. CASE windows[w] = <<>>
      BY <2>2, <3>1 DEF WindowStart
    <3>2. CASE windows[w] # <<>>
      <4>1. Len(windows[w]) \in 1..Len(windows[w])
        BY <2>2, <3>2, EmptySeq
      <4>2. Last(windows[w]) \in WindowType
        BY <2>2, <4>1, ElementOfSeq DEF Last
      <4>. QED
        BY <3>2, <4>2 DEF WindowStart, WindowType
    <3>. QED
      BY <3>1, <3>2
  <2>5. /\ Window(w, at).start = WindowStart(w) /\ Window(w, at).end = at
        /\ Window(w, at) \in WindowType
    BY <2>4 DEF Window, WindowType, CiLowAboveZero
  <2>6. at - WindowStart(w) >= ValidationSpan
    BY <2>1 DEF Ready
  <2>7. LeadsTo(stage[w], windows[w], Window(w, at), Verdict(w, Window(w, at)))
    BY <2>1, <2>2, <2>5, VerdictLeads
  <2>8. Verdict(w, Window(w, at)) \in Stages
    BY <2>2, <2>7 DEF LeadsTo, Stages, Vetted, Monitored
  <2>9. closing[w] = [window |-> Window(w, at), from |-> stage[w],
                      to |-> Verdict(w, Window(w, at))]
    BY <1>1
  <2>. HIDE DEF Window
  <2>10. closing[w] \in ClosingType
    BY <2>2, <2>5, <2>8, <2>9 DEF ClosingType
  <2>. QED
    BY <2>1, <2>3, <2>5, <2>6, <2>7, <2>9, <2>10 DEF RowOK
<1>. QED
  BY <1>1, <1>2 DEF HoldsClosing, closing

\* What a wallet's windows and stage become when a run writes its windows.
LEMMA WrittenClosing ==
  ASSUME IInv, NEW tracked, tracked \in {Vetted, Monitored},
         NEW closing, HoldsClosing(closing, tracked), WriteClosing(closing), UNCHANGED since
  PROVE  /\ WalletsOK'
         /\ \A w \in Wallets : stage[w] \notin tracked =>
              stage'[w] = stage[w] /\ windows'[w] = windows[w]
         /\ \A w \in Wallets : stage'[w] \in Active => stage[w] \in Active
<1>1. ASSUME NEW w \in Wallets
      PROVE  /\ WalletOK(stage'[w], since'[w], windows'[w], log'[w])
             /\ stage[w] \notin tracked => stage'[w] = stage[w] /\ windows'[w] = windows[w]
             /\ stage'[w] \in Active => stage[w] \in Active
  <2>1. WalletOK(stage[w], since[w], windows[w], log[w]) /\ since'[w] = since[w]
    BY DEF IInv, WalletsOK
  <2>2. CASE w \in DOMAIN closing
    <3>1. stage[w] \in tracked /\ RowOK(stage[w], since[w], windows[w], closing[w])
      BY <2>2 DEF HoldsClosing
    <3>2. /\ windows'[w] = Append(windows[w], closing[w].window)
          /\ stage'[w] = closing[w].to
          /\ log'[w] = IF closing[w].from # closing[w].to
                         THEN Append(log[w], [from |-> closing[w].from, to |-> closing[w].to])
                         ELSE log[w]
      BY <2>2 DEF WriteClosing
    <3>3. stage[w] \in Active
      BY <3>1 DEF Active
    <3>4. WalletOK(stage'[w], since'[w], windows'[w], log'[w])
      <4> DEFINE row == closing[w]
      <4>1. WalletOK(row.to, since[w], Append(windows[w], row.window),
                     IF row.from # row.to
                       THEN Append(log[w], [from |-> row.from, to |-> row.to]) ELSE log[w])
        BY <2>1, <3>1, <3>3, ClosedWallet, Zenon
      <4>. QED
        BY <2>1, <3>2, <4>1
    <3>. QED
      BY <3>1, <3>3, <3>4
  <2>3. CASE w \notin DOMAIN closing
    <3>1. windows'[w] = windows[w] /\ stage'[w] = stage[w] /\ log'[w] = log[w]
      BY <2>3 DEF WriteClosing
    <3>. QED
      BY <2>1, <3>1
  <2>. QED
    BY <2>2, <2>3
<1>2. /\ stage' = [w \in Wallets |-> stage'[w]] /\ windows' = [w \in Wallets |-> windows'[w]]
      /\ log' = [w \in Wallets |-> log'[w]]
  BY DEF WriteClosing
<1>3. /\ stage' \in [Wallets -> Stages] /\ windows' \in [Wallets -> Seq(WindowType)]
      /\ log' \in [Wallets -> Seq(MoveType)] /\ since' \in [Wallets -> 0..MaxTime]
  BY <1>1, <1>2 DEF WalletOK, IInv, WalletsOK
<1>. QED
  BY <1>1, <1>3 DEF WalletsOK

\* Ownership: what a run holds stands as long as the others leave the stages,
\* anchors and windows of its wallets alone.
LEMMA ClosingStands ==
  ASSUME NEW tracked, NEW closing, HoldsClosing(closing, tracked),
         \A w \in Wallets : stage[w] \in tracked =>
           stage'[w] = stage[w] /\ since'[w] = since[w] /\ windows'[w] = windows[w]
  PROVE  /\ DOMAIN closing \subseteq Wallets
         /\ \A w \in DOMAIN closing : /\ stage'[w] \in tracked
                                      /\ RowOK(stage'[w], since'[w], windows'[w], closing[w])
BY DEF HoldsClosing

-----------------------------------------------------------------------------
(***************************************************************************)
(* The steps.                                                              *)
(***************************************************************************)
\* Empty tables and no running job.
LEMMA IInvInit == Init => IInv
<1> SUFFICES ASSUME Init PROVE IInv
  OBVIOUS
<1>. USE DEF Init
<1>1. PositionsOK /\ ScreenOK /\ TrackOK /\ DecayOK
  BY ScoutSettings DEF PositionsOK, ScreenOK, TrackOK, DecayOK, Never
<1>2. /\ <<>> \in Seq(WindowType) /\ <<>> \in Seq(MoveType) /\ DOMAIN <<>> = 1..0
  BY EmptySeq, LenProperties
<1>3. WalletOK("NONE", 0, <<>>, <<>>)
  <2>1. IsPath(<<>>, "NONE") /\ Tiles(<<>>)
    BY <1>2 DEF IsPath, Tiles
  <2>2. Earned("NONE", <<>>) /\ "NONE" \in Stages /\ "NONE" \notin Active
    BY DEF Earned, Stages, Active, Vetted, Monitored
  <2>. QED
    BY <1>2, <2>1, <2>2, ScoutSettings DEF WalletOK
<1>4. WalletsOK
  BY <1>2, <1>3 DEF WalletsOK, WalletOK
<1>. QED
  BY <1>1, <1>4 DEF IInv

\* A detected position is none that a run has seen.
LEMMA OpenPositionKeepsIInv ==
  ASSUME IInv, NEW p \in Positions, OpenPosition(p)
  PROVE  IInv'
<1>. USE DEF IInv, OpenPosition, tables
<1>1. WalletsOK'
  BY DEF WalletsOK
<1>2. /\ opened' \in [Positions -> {Never} \cup 0..MaxTime]
      /\ \A q \in Positions : opened[q] # Never => opened'[q] = opened[q]
  <2>1. PICK lag \in 0..MaxLag : lag <= now /\ opened' = [opened EXCEPT ![p] = now - lag]
    OBVIOUS
  <2>2. now - lag \in 0..MaxTime
    BY <2>1, ScoutSettings DEF PositionsOK
  <2>. QED
    BY <2>1, <2>2 DEF PositionsOK
<1>3. PositionsOK'
  BY <1>2 DEF PositionsOK, HasPrice
<1>4. ScreenOK'
  BY DEF ScreenOK
<1>5. TrackOK'
  BY <1>2 DEF TrackOK, HoldsClosing, HasPrice
<1>6. DecayOK'
  BY DEF DecayOK, HoldsClosing
<1>. QED
  BY <1>1, <1>3, <1>4, <1>5, <1>6

\* A price that has come stays.
LEMMA SnapshotPriceKeepsIInv ==
  ASSUME IInv, NEW p \in Positions, SnapshotPrice(p)
  PROVE  IInv'
<1>. USE DEF IInv, SnapshotPrice, tables
<1>1. WalletsOK'
  BY DEF WalletsOK
<1>2. PositionsOK'
  BY DEF PositionsOK, HasPrice
<1>3. ScreenOK'
  BY DEF ScreenOK
<1>4. TrackOK'
  BY DEF TrackOK, HoldsClosing, HasPrice
<1>5. DecayOK'
  BY DEF DecayOK, HoldsClosing
<1>. QED
  BY <1>1, <1>2, <1>3, <1>4, <1>5

\* The screen decides on wallets that are out of the pipeline.
LEMMA BeginScreenKeepsIInv == IInv /\ BeginScreen => IInv'
<1> SUFFICES ASSUME IInv, BeginScreen PROVE IInv'
  OBVIOUS
<1>. USE DEF IInv, tables, world
<1>1. UNCHANGED <<world, tables, track, decay, faults>>
  BY DEF BeginScreen
<1> DEFINE Entered(past, t) == {w \in DOMAIN past : PassesScreen(past[w], t, Screening)}
           Decided(past, t) == /\ now' = t
                               /\ screen' = [at |-> t, from |-> stage, entered |-> Entered(past, t),
                                             failed |-> DOMAIN past \ Entered(past, t)]
<1>a. PICK screened \in SUBSET Wallets :
        \E past \in [Screenable(screened) -> Histories], t \in Later : Decided(past, t)
  BY DEF BeginScreen
<1>2. PICK past \in [Screenable(screened) -> Histories], t \in Later : Decided(past, t)
  BY <1>a
<1>3. t \in 0..MaxTime
  BY LaterInRange DEF PositionsOK
<1>4. DOMAIN past \subseteq Wallets /\ \A w \in DOMAIN past : stage[w] \notin Active
  BY DEF Screenable, Active, Vetted, Monitored
<1>5. WalletsOK'
  BY <1>1 DEF WalletsOK
<1>6. PositionsOK'
  BY <1>1, <1>2, <1>3 DEF PositionsOK, HasPrice
<1>7. ScreenOK'
  BY <1>1, <1>2, <1>3, <1>4 DEF ScreenOK, WalletsOK
<1>8. TrackOK' /\ DecayOK'
  BY <1>1 DEF TrackOK, DecayOK, HoldsClosing, HasPrice
<1>. QED
  BY <1>5, <1>6, <1>7, <1>8

\* The screen's commit touches only wallets that no other run works on.
LEMMA CommitScreenKeepsIInv == IInv /\ CommitScreen => IInv'
<1> SUFFICES ASSUME IInv, CommitScreen PROVE IInv'
  OBVIOUS
<1>. USE DEF IInv, world
<1>1. /\ UNCHANGED <<now, world, track, decay, faults>> /\ screen' = NoTxn /\ screen # NoTxn
  BY DEF CommitScreen
<1>2. /\ screen \in [at : 0..MaxTime, from : [Wallets -> Stages],
                     entered : SUBSET Wallets, failed : SUBSET Wallets]
      /\ \A w \in screen.entered \cup screen.failed :
           stage[w] \notin Active /\ screen.from[w] = stage[w]
  BY <1>1 DEF ScreenOK
<1>3. ASSUME NEW w \in Wallets
      PROVE  /\ stage'[w] = ScreenVerdict(w)
             /\ since'[w] = IF w \in screen.entered THEN screen.at ELSE since[w]
             /\ windows'[w] = IF w \in screen.entered THEN <<>> ELSE windows[w]
             /\ log'[w] = ScreenLog(w)
  BY DEF CommitScreen
<1>4. ASSUME NEW w \in Wallets, w \notin screen.entered, w \notin screen.failed
      PROVE  /\ stage'[w] = stage[w] /\ since'[w] = since[w]
             /\ windows'[w] = windows[w] /\ log'[w] = log[w]
  BY <1>3, <1>4 DEF ScreenVerdict, ScreenLog
<1>5. ASSUME NEW w \in Wallets PROVE WalletOK(stage'[w], since'[w], windows'[w], log'[w])
  <2>1. WalletOK(stage[w], since[w], windows[w], log[w])
    BY DEF WalletsOK
  <2>2. CASE w \in screen.entered \cup screen.failed
    <3> DEFINE to == ScreenVerdict(w)
               move == [from |-> stage[w], to |-> to]
               ws == windows'[w]
    <3>1. to = IF w \in screen.entered THEN "CANDIDATE" ELSE "REJECTED"
      BY <2>2 DEF ScreenVerdict
    <3>2. log'[w] = IF stage[w] # to THEN Append(log[w], move) ELSE log[w]
      BY <1>2, <1>3, <2>2 DEF ScreenLog
    <3>3. to \in Stages \ {"NONE"} /\ stage[w] \in Stages
      BY <2>1, <3>1 DEF Stages, Vetted, WalletOK
    <3>. HIDE DEF to
    <3>4. move \in MoveType /\ move.from = stage[w] /\ move.to = to
      BY <3>3 DEF MoveType
    <3>. HIDE DEF move
    <3>5. log'[w] \in Seq(MoveType) /\ IsPath(log'[w], to)
      <4>1. log[w] \in Seq(MoveType) /\ IsPath(log[w], stage[w])
        BY <2>1 DEF WalletOK
      <4>2. Append(log[w], move) \in Seq(MoveType) /\ IsPath(Append(log[w], move), to)
        BY <3>4, <4>1, PathAppend
      <4>. QED
        BY <3>2, <4>1, <4>2
    <3>6. stage'[w] = to
      BY <1>3 DEF to
    <3>7. CASE w \in screen.entered
      <4>1. ws = <<>> /\ since'[w] \in 0..MaxTime /\ to = "CANDIDATE"
        BY <1>2, <1>3, <3>1, <3>7
      <4>2. <<>> \in Seq(WindowType) /\ DOMAIN <<>> = 1..0
        BY EmptySeq, LenProperties
      <4>3. Tiles(<<>>) /\ BeganAt(since'[w], <<>>)
        BY <4>2 DEF Tiles, BeganAt
      <4>4. Earned("CANDIDATE", <<>>)
        BY DEF Earned, Monitored
      <4>. QED
        BY <3>3, <3>5, <3>6, <4>1, <4>2, <4>3, <4>4 DEF WalletOK
    <3>8. CASE w \notin screen.entered
      <4>1. ws = windows[w] /\ since'[w] = since[w] /\ to = "REJECTED"
        BY <1>3, <3>1, <3>8
      <4>2. Earned("REJECTED", windows[w]) /\ "REJECTED" \notin Active
        BY DEF Earned, Active, Vetted, Monitored
      <4>. QED
        BY <2>1, <3>3, <3>5, <3>6, <4>1, <4>2 DEF WalletOK
    <3>. QED
      BY <3>7, <3>8
  <2>3. CASE w \notin screen.entered \cup screen.failed
    BY <1>4, <2>1, <2>3
  <2>. QED
    BY <2>2, <2>3
<1>6. WalletsOK'
  <2>1. /\ stage' = [w \in Wallets |-> stage'[w]] /\ windows' = [w \in Wallets |-> windows'[w]]
        /\ log' = [w \in Wallets |-> log'[w]] /\ since' = [w \in Wallets |-> since'[w]]
    BY DEF CommitScreen
  <2>. QED
    BY <1>5, <2>1 DEF WalletsOK, WalletOK
<1>7. PositionsOK'
  <2>1. /\ forward' = {p \in forward : WalletOf[p] \notin screen.entered}
        /\ graded' = {p \in graded : WalletOf[p] \notin screen.entered}
    BY DEF CommitScreen
  <2>2. ASSUME NEW p \in forward, WalletOf[p] \notin screen.entered,
               stage'[WalletOf[p]] \in Active
        PROVE  opened[p] >= since'[WalletOf[p]]
    <3>1. p \in Positions /\ WalletOf[p] \in Wallets
      BY ScoutSettings DEF PositionsOK
    <3>2. WalletOf[p] \notin screen.failed
      BY <1>3, <2>2, <3>1 DEF ScreenVerdict, Active, Vetted, Monitored
    <3>3. stage'[WalletOf[p]] = stage[WalletOf[p]] /\ since'[WalletOf[p]] = since[WalletOf[p]]
      BY <1>4, <2>2, <3>1, <3>2
    <3>. QED
      BY <2>2, <3>3 DEF PositionsOK
  <2>. QED
    BY <1>1, <2>1, <2>2 DEF PositionsOK, HasPrice
<1>8. ScreenOK'
  BY <1>1 DEF ScreenOK
<1>9. \A w \in Wallets : stage[w] \in Active =>
        stage'[w] = stage[w] /\ since'[w] = since[w] /\ windows'[w] = windows[w]
  BY <1>2, <1>4
<1>10. TrackOK'
  <2> SUFFICES ASSUME track # NoTxn PROVE TrackOK'
    BY <1>1 DEF TrackOK
  <2>1. HoldsClosing(track.closing, Vetted)'
    BY <1>1, <1>9, ClosingStands DEF TrackOK, HoldsClosing, Active
  <2>2. \A p \in track.added : /\ stage'[WalletOf[p]] \in Vetted
                               /\ opened[p] >= since'[WalletOf[p]]
    BY <1>9, ScoutSettings DEF TrackOK, Active
  <2>. QED
    BY <1>1, <2>1, <2>2 DEF TrackOK, HasPrice
<1>11. DecayOK'
  BY <1>1, <1>9, ClosingStands DEF DecayOK, HoldsClosing, Active
<1>. QED
  BY <1>6, <1>7, <1>8, <1>10, <1>11

\* A tracking run begins with empty hands.
LEMMA BeginTrackingKeepsIInv == IInv /\ BeginTracking => IInv'
<1> SUFFICES ASSUME IInv, BeginTracking PROVE IInv'
  OBVIOUS
<1>. USE DEF IInv, tables, world
<1>1. UNCHANGED <<world, tables, screen, decay, faults>>
  BY DEF BeginTracking
<1>2. PICK t \in Later :
        /\ now' = t
        /\ track' = [at |-> t, phase |-> "read", added |-> {}, filled |-> {}, closing |-> <<>>]
  BY DEF BeginTracking
<1>3. t \in 0..MaxTime
  BY LaterInRange DEF PositionsOK
<1>4. DOMAIN <<>> = {}
  BY EmptySeq, LenProperties
<1>5. WalletsOK' /\ ScreenOK'
  BY <1>1 DEF WalletsOK, ScreenOK
<1>6. PositionsOK'
  BY <1>1, <1>2, <1>3 DEF PositionsOK, HasPrice
<1>7. TrackOK'
  BY <1>1, <1>2, <1>3, <1>4 DEF TrackOK, HoldsClosing
<1>8. DecayOK'
  BY <1>1 DEF DecayOK, HoldsClosing
<1>. QED
  BY <1>5, <1>6, <1>7, <1>8

\* What the run reads is of wallets being vetted, which are its own.
LEMMA ReadTrackingKeepsIInv == IInv /\ ReadTracking => IInv'
<1> SUFFICES ASSUME IInv, ReadTracking PROVE IInv'
  OBVIOUS
<1>. USE DEF IInv, tables, world
<1>1. UNCHANGED <<now, world, tables, screen, decay, faults>> /\ track # NoTxn
  BY DEF ReadTracking
<1>2. PICK taken \in DueFills(track.at) :
        track' = [track EXCEPT !.phase = "commit", !.added = NewForwardTrades,
                               !.filled = {p \in taken : HasPrice(p)},
                               !.closing = Closing(Vetted, track.at)]
  BY DEF ReadTracking
<1>a. track' = [at |-> track.at, phase |-> "commit", added |-> NewForwardTrades,
                filled |-> {p \in taken : HasPrice(p)}, closing |-> Closing(Vetted, track.at)]
  <2> DEFINE filled == {p \in taken : HasPrice(p)}
             closing == Closing(Vetted, track.at)
             added == NewForwardTrades
  <2>1. track = [at |-> track.at, phase |-> track.phase, added |-> track.added,
                 filled |-> track.filled, closing |-> track.closing]
    BY <1>1 DEF TrackOK
  <2>2. track' = [track EXCEPT !.phase = "commit", !.added = added,
                               !.filled = filled, !.closing = closing]
    BY <1>2
  <2>. HIDE DEF filled, closing, added
  <2>3. track' = [at |-> track.at, phase |-> "commit", added |-> added,
                  filled |-> filled, closing |-> closing]
    BY <2>1, <2>2
  <2>. QED
    BY <2>3 DEF filled, closing, added
<1>3. WalletsOK' /\ PositionsOK' /\ ScreenOK' /\ DecayOK'
  BY <1>1 DEF WalletsOK, PositionsOK, ScreenOK, DecayOK, HoldsClosing, HasPrice
<1>4. /\ NewForwardTrades \subseteq {p \in Positions : opened[p] # Never}
      /\ \A p \in NewForwardTrades : /\ stage[WalletOf[p]] \in Vetted
                                     /\ opened[p] >= since[WalletOf[p]]
  BY DEF NewForwardTrades
<1>5. {p \in taken : HasPrice(p)} \subseteq {p \in Positions : HasPrice(p)}
  BY DEF DueFills, PositionsOK
<1>6. HoldsClosing(Closing(Vetted, track.at), Vetted)
  BY <1>1, ClosingHolds DEF TrackOK
<1>7. TrackOK'
  BY <1>1, <1>a, <1>4, <1>5, <1>6 DEF TrackOK, HoldsClosing, HasPrice
<1>. QED
  BY <1>3, <1>7

\* What the run writes is what it would read now.
LEMMA CommitTrackingKeepsIInv == IInv /\ CommitTracking => IInv'
<1> SUFFICES ASSUME IInv, CommitTracking PROVE IInv'
  OBVIOUS
<1>. USE DEF IInv, world
<1>1. /\ UNCHANGED <<now, world, since, screen, decay, faults>>
      /\ track # NoTxn /\ track' = NoTxn
      /\ WriteClosing(track.closing) /\ HoldsClosing(track.closing, Vetted)
      /\ forward' = forward \cup track.added
      /\ graded' = graded \cup (track.filled \ Vanished)
  BY DEF CommitTracking, TrackOK
<1>2. /\ WalletsOK'
      /\ \A w \in Wallets : stage[w] \notin Vetted =>
           stage'[w] = stage[w] /\ windows'[w] = windows[w]
      /\ \A w \in Wallets : stage'[w] \in Active => stage[w] \in Active
  BY <1>1, WrittenClosing
<1>3. PositionsOK'
  <2>1. ASSUME NEW p \in forward', stage'[WalletOf[p]] \in Active
        PROVE  opened[p] >= since[WalletOf[p]]
    <3>1. p \in Positions /\ WalletOf[p] \in Wallets
      BY <1>1, <2>1, ScoutSettings DEF PositionsOK, TrackOK
    <3>. QED
      BY <1>1, <1>2, <2>1, <3>1 DEF PositionsOK, TrackOK
  <2>2. graded' \subseteq {p \in forward' : HasPrice(p)}
    BY <1>1 DEF PositionsOK, TrackOK, Vanished
  <2>. QED
    BY <1>1, <2>1, <2>2 DEF PositionsOK, TrackOK, HasPrice
<1>4. ScreenOK'
  BY <1>1, <1>2 DEF ScreenOK, Active
<1>5. TrackOK'
  BY <1>1 DEF TrackOK
<1>6. DecayOK'
  BY <1>1, <1>2, ClosingStands DEF DecayOK, HoldsClosing, Vetted, Monitored
<1>. QED
  BY <1>2, <1>3, <1>4, <1>5, <1>6

\* A failed tracking run leaves no trace.
LEMMA FailTrackingKeepsIInv == IInv /\ FailTracking => IInv'
<1> SUFFICES ASSUME IInv, FailTracking PROVE IInv'
  OBVIOUS
<1>. USE DEF IInv, FailTracking, tables, world
<1>1. WalletsOK' /\ ScreenOK' /\ DecayOK'
  BY DEF WalletsOK, ScreenOK, DecayOK, HoldsClosing
<1>2. faults' \in 0..MaxFaults
  BY ScoutSettings DEF PositionsOK
<1>3. PositionsOK'
  BY <1>2 DEF PositionsOK, HasPrice
<1>4. TrackOK'
  BY DEF TrackOK
<1>. QED
  BY <1>1, <1>3, <1>4

\* A decay check begins with empty hands.
LEMMA BeginDecayKeepsIInv == IInv /\ BeginDecay => IInv'
<1> SUFFICES ASSUME IInv, BeginDecay PROVE IInv'
  OBVIOUS
<1>. USE DEF IInv, tables, world
<1>1. UNCHANGED <<world, tables, screen, track, faults>>
  BY DEF BeginDecay
<1>2. PICK t \in Later : now' = t /\ decay' = [at |-> t, phase |-> "read", closing |-> <<>>]
  BY DEF BeginDecay
<1>3. t \in 0..MaxTime
  BY LaterInRange DEF PositionsOK
<1>4. DOMAIN <<>> = {}
  BY EmptySeq, LenProperties
<1>5. WalletsOK' /\ ScreenOK'
  BY <1>1 DEF WalletsOK, ScreenOK
<1>6. PositionsOK'
  BY <1>1, <1>2, <1>3 DEF PositionsOK, HasPrice
<1>7. TrackOK'
  BY <1>1 DEF TrackOK, HoldsClosing, HasPrice
<1>8. DecayOK'
  BY <1>2, <1>3, <1>4 DEF DecayOK, HoldsClosing
<1>. QED
  BY <1>5, <1>6, <1>7, <1>8

\* What the decay check reads is of wallets being monitored, its own.
LEMMA ReadDecayKeepsIInv == IInv /\ ReadDecay => IInv'
<1> SUFFICES ASSUME IInv, ReadDecay PROVE IInv'
  OBVIOUS
<1>. USE DEF IInv, tables, world
<1>1. /\ UNCHANGED <<now, world, tables, screen, track, faults>> /\ decay # NoTxn
      /\ decay' = [decay EXCEPT !.phase = "commit", !.closing = Closing(Monitored, decay.at)]
  BY DEF ReadDecay
<1>2. WalletsOK' /\ PositionsOK' /\ ScreenOK' /\ TrackOK'
  BY <1>1 DEF WalletsOK, PositionsOK, ScreenOK, TrackOK, HoldsClosing, HasPrice
<1>3. HoldsClosing(Closing(Monitored, decay.at), Monitored)
  BY <1>1, ClosingHolds DEF DecayOK
<1>4. decay' = [at |-> decay.at, phase |-> "commit", closing |-> Closing(Monitored, decay.at)]
  <2> DEFINE closing == Closing(Monitored, decay.at)
  <2>1. decay = [at |-> decay.at, phase |-> decay.phase, closing |-> decay.closing]
    BY <1>1 DEF DecayOK
  <2>2. decay' = [decay EXCEPT !.phase = "commit", !.closing = closing]
    BY <1>1
  <2>. HIDE DEF closing
  <2>3. decay' = [at |-> decay.at, phase |-> "commit", closing |-> closing]
    BY <2>1, <2>2
  <2>. QED
    BY <2>3 DEF closing
<1>5. DecayOK'
  BY <1>1, <1>3, <1>4 DEF DecayOK, HoldsClosing
<1>. QED
  BY <1>2, <1>5

\* What the decay check writes is what it would read now.
LEMMA CommitDecayKeepsIInv == IInv /\ CommitDecay => IInv'
<1> SUFFICES ASSUME IInv, CommitDecay PROVE IInv'
  OBVIOUS
<1>. USE DEF IInv, world
<1>1. /\ UNCHANGED <<now, world, since, forward, graded, screen, track, faults>>
      /\ decay # NoTxn /\ decay' = NoTxn
      /\ WriteClosing(decay.closing) /\ HoldsClosing(decay.closing, Monitored)
  BY DEF CommitDecay, DecayOK
<1>2. /\ WalletsOK'
      /\ \A w \in Wallets : stage[w] \notin Monitored =>
           stage'[w] = stage[w] /\ windows'[w] = windows[w]
      /\ \A w \in Wallets : stage'[w] \in Active => stage[w] \in Active
  BY <1>1, WrittenClosing
<1>3. PositionsOK'
  BY <1>1, <1>2, ScoutSettings DEF PositionsOK, HasPrice
<1>4. ScreenOK'
  BY <1>1, <1>2 DEF ScreenOK, Active
<1>5. \A w \in Wallets : stage[w] \in Vetted =>
        stage'[w] = stage[w] /\ since'[w] = since[w] /\ windows'[w] = windows[w]
  BY <1>1, <1>2 DEF Vetted, Monitored
<1>6. TrackOK'
  <2>1. track # NoTxn => HoldsClosing(track.closing, Vetted)'
    BY <1>1, <1>5, ClosingStands DEF TrackOK, HoldsClosing
  <2>2. track # NoTxn =>
          \A p \in track.added : /\ stage'[WalletOf[p]] \in Vetted
                                 /\ opened[p] >= since'[WalletOf[p]]
    BY <1>5, ScoutSettings DEF TrackOK
  <2>. QED
    BY <1>1, <2>1, <2>2 DEF TrackOK, HasPrice
<1>7. DecayOK'
  BY <1>1 DEF DecayOK
<1>. QED
  BY <1>2, <1>3, <1>4, <1>6, <1>7

\* The invariant reads nothing but the variables.
LEMMA StutterKeepsIInv == IInv /\ UNCHANGED vars => IInv'
<1> SUFFICES ASSUME IInv, UNCHANGED vars PROVE IInv'
  OBVIOUS
<1>. USE DEF IInv, vars, tables, world
<1>. QED
  BY DEF WalletsOK, PositionsOK, ScreenOK, TrackOK, DecayOK, HoldsClosing, HasPrice

\* Every step keeps the invariant: one lemma for each action.
LEMMA IInvStep == IInv /\ [Next]_vars => IInv'
<1> SUFFICES ASSUME IInv, [Next]_vars PROVE IInv'
  OBVIOUS
<1>1. ASSUME NEW p \in Positions, OpenPosition(p) PROVE IInv'
  BY <1>1, OpenPositionKeepsIInv
<1>2. ASSUME NEW p \in Positions, SnapshotPrice(p) PROVE IInv'
  BY <1>2, SnapshotPriceKeepsIInv
<1>3. CASE Screen
  BY <1>3, BeginScreenKeepsIInv, CommitScreenKeepsIInv DEF Screen
<1>4. CASE Tracking
  BY <1>4, BeginTrackingKeepsIInv, ReadTrackingKeepsIInv, CommitTrackingKeepsIInv DEF Tracking
<1>5. CASE FailTracking
  BY <1>5, FailTrackingKeepsIInv
<1>6. CASE Decay
  BY <1>6, BeginDecayKeepsIInv, ReadDecayKeepsIInv, CommitDecayKeepsIInv DEF Decay
<1>7. CASE UNCHANGED vars
  BY <1>7, StutterKeepsIInv
<1>. QED
  BY <1>1, <1>2, <1>3, <1>4, <1>5, <1>6, <1>7 DEF Next, Collectors

-----------------------------------------------------------------------------
(***************************************************************************)
(* The theorems.                                                           *)
(***************************************************************************)

\* The invariant holds in every reachable state.
THEOREM Invariance == Spec => []IInv
BY IInvInit, IInvStep, PTL DEF Spec

\* Type correctness of the pipeline's tables and of the three jobs' transactions.
THEOREM TypeCorrect == Spec => []TypeOK
<1>1. IInv => TypeOK
  <2> SUFFICES ASSUME IInv PROVE TypeOK
    OBVIOUS
  <2>1. ASSUME NEW closing, NEW tracked, HoldsClosing(closing, tracked) PROVE IsClosing(closing)
    BY <2>1 DEF HoldsClosing, IsClosing, RowOK
  <2>2. track # NoTxn => IsClosing(track.closing)
    BY <2>1 DEF IInv, TrackOK
  <2>3. decay # NoTxn => IsClosing(decay.closing)
    BY <2>1 DEF IInv, DecayOK
  <2>. QED
    BY <2>2, <2>3 DEF IInv, WalletsOK, PositionsOK, ScreenOK, TrackOK, DecayOK, TypeOK
<1>. QED
  BY <1>1, Invariance, PTL

\* No verdict is lost: whatever the three jobs do at the same time, the
\* transition log of a wallet is one path to its stage
\* (docs/SCOUT_DESIGN.md, flag 11).
THEOREM NoVerdictIsLost == Spec => []TransitionLogIsPath
<1>1. IInv => TransitionLogIsPath
  BY DEF IInv, WalletsOK, WalletOK, IsPath, TransitionLogIsPath
<1>. QED
  BY <1>1, Invariance, PTL

\* A verdict rests on trades and windows of its own attempt (the clean slate of
\* run_historical_screen).
THEOREM VerdictsAreFresh == Spec => []VerdictsRestOnThisAttempt
<1>1. IInv => VerdictsRestOnThisAttempt
  <2> SUFFICES ASSUME IInv, NEW w \in Wallets
               PROVE  /\ stage[w] \in Active =>
                           /\ \A p \in forward : WalletOf[p] = w => opened[p] >= since[w]
                           /\ \A i \in DOMAIN windows[w] : windows[w][i].start >= since[w]
                      /\ stage[w] = "CANDIDATE" => windows[w] = <<>>
                      /\ stage[w] = "WATCHLIST" =>
                           /\ windows[w] # <<>>
                           /\ \A i \in DOMAIN windows[w] : windows[w][i].passed
                      /\ stage[w] \in Monitored => PassingWindows(w) >= Confirmations
    BY DEF VerdictsRestOnThisAttempt, Active
  <2>1. WalletOK(stage[w], since[w], windows[w], log[w])
    BY DEF IInv, WalletsOK
  <2>2. \A p \in forward : WalletOf[p] = w /\ stage[w] \in Active => opened[p] >= since[w]
    BY DEF IInv, PositionsOK
  <2>3. PassingWindows(w) = Cardinality(PassedIn(windows[w]))
    BY DEF PassingWindows, PassedIn
  <2>. QED
    BY <2>1, <2>2, <2>3 DEF WalletOK, Earned, BeganAt
<1>. QED
  BY <1>1, Invariance, PTL

\* The windows of an attempt tile the time since it began, whichever job closes
\* them (current_window_start).
THEOREM WindowsAreATiling == Spec => []WindowsTile
<1>1. IInv => WindowsTile
  <2> SUFFICES ASSUME IInv, NEW w \in Wallets
               PROVE  /\ stage[w] \in Active /\ windows[w] # <<>> =>
                           Head(windows[w]).start = since[w]
                      /\ Tiles(windows[w])
    BY DEF WindowsTile, Active, Tiles
  <2>1. WalletOK(stage[w], since[w], windows[w], log[w])
    BY DEF IInv, WalletsOK
  <2>2. windows[w] # <<>> => Head(windows[w]) = windows[w][1]
    BY <2>1 DEF WalletOK
  <2>. QED
    BY <2>1, <2>2 DEF WalletOK, BeganAt
<1>. QED
  BY <1>1, Invariance, PTL

\* No wallet is DECAYING on a shorter streak than SCOUT_DECAY_WINDOWS
\* (app/scout/decay.py).
THEOREM DecayIsEarned == Spec => []DecayingMeansDecayed
<1>1. IInv => DecayingMeansDecayed
  <2> SUFFICES ASSUME IInv, NEW w \in Wallets, stage[w] = "DECAYING"
               PROVE  Streak(w) >= DecayWindows
    BY DEF DecayingMeansDecayed
  <2>1. Streak(w) = Cardinality(SickTail(windows[w]))
    BY DEF Streak, SickTail
  <2>. QED
    BY <2>1 DEF IInv, WalletsOK, WalletOK, Earned
<1>. QED
  BY <1>1, Invariance, PTL
=============================================================================
