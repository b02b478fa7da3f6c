------------------------ MODULE NichePipelineProofs ------------------------
(***************************************************************************)
(* Theorems about a discovery sweep, for every set of wallets, markets,    *)
(* trades and positions and every setting.                                 *)
(*                                                                         *)
(* The inductive invariant adds three facts to the properties: a pair that *)
(* is being vetted knows since when, the forward run has read its clock,   *)
(* and a pair on the watchlist owes it to its last window.                 *)
(***************************************************************************)
EXTENDS NichePipeline, SequenceTheorems, FiniteSetTheorems, FunctionTheorems, TLAPS

-----------------------------------------------------------------------------
(***************************************************************************)
(* The three walk stages.  The two cursors are the heart of them: the      *)
(* tagging walk tags only past its cursor, and the grading walk's cursor,  *)
(* which moves over tagged markets, never overtakes it.  Hence no market   *)
(* is tagged behind the grading cursor.                                    *)
(***************************************************************************)
CursorsInOrder ==
  /\ gradeCursor <= tagCursor
  /\ \A m \in niches : m <= tagCursor
  /\ \A m \in batch : m > tagCursor

WalkInv == WalkTypeOK /\ CursorsInOrder /\ GradesAreComplete

-----------------------------------------------------------------------------
(***************************************************************************)
(* Lemmas about finite sets and the walks' batches.                        *)
(***************************************************************************)

\* A finite set of integers has a greatest member.
LEMMA FiniteHasGreatest ==
  ASSUME NEW S, IsFiniteSet(S), S \subseteq Int, S # {}
  PROVE  \E x \in S : \A y \in S : x >= y
<1> DEFINE Bad == {T \in SUBSET S : T # {} /\ ~ \E x \in T : \A y \in T : x >= y}
           R == StrictSubsetOrdering(S)
<1> SUFFICES ASSUME Bad # {} PROVE FALSE
  OBVIOUS
<1>1. IsWellFoundedOn(R, SUBSET S)
  BY FS_StrictSubsetOrderingWellFounded, FS_FiniteSubsetsOfFinite
<1>2. PICK T \in Bad : \A U \in Bad : <<U, T>> \notin R
  <2>1. Bad \subseteq SUBSET S
    OBVIOUS
  <2>. HIDE DEF Bad, R
  <2>. QED
    BY <1>1, <2>1, WFMin
<1>3. PICK x \in T : TRUE
  OBVIOUS
<1>4. T \ {x} # {}
  <2>1. x \in Int /\ x >= x
    BY <1>3
  <2>. QED
    BY <2>1, <1>3
<1>5. T \ {x} \notin Bad
  BY <1>2, <1>3 DEF StrictSubsetOrdering
<1>6. PICK y \in T \ {x} : \A z \in T \ {x} : y >= z
  BY <1>4, <1>5
<1>7. x \in Int /\ y \in Int
  BY <1>6
<1>8. CASE y >= x
  BY <1>6, <1>8
<1>9. CASE x >= y
  <2>1. \A z \in T : x >= z
    BY <1>6, <1>7, <1>9
  <2>. QED
    BY <2>1
<1>. QED
  BY <1>7, <1>8, <1>9

\* Max is the greatest member of a finite set of integers.
LEMMA MaxIsGreatest ==
  ASSUME NEW S, IsFiniteSet(S), S \subseteq Int, S # {}
  PROVE  Max(S) \in S /\ \A y \in S : Max(S) >= y
BY FiniteHasGreatest DEF Max

\* A set of markets is finite, and its size a number.
LEMMA SomeMarkets ==
  ASSUME NEW S \in SUBSET Markets
  PROVE  IsFiniteSet(S) /\ S \subseteq Int /\ Cardinality(S) \in Nat
<1>1. IsFiniteSet(Markets) /\ Markets \subseteq Int
  BY WalkConstants
<1>2. IsFiniteSet(S)
  BY <1>1, FS_Subset
<1>. QED
  BY <1>1, <1>2, FS_CardinalityType

\* A cursor moves up to the last market of its batch, and never back.
LEMMA CursorAdvances ==
  ASSUME NEW cursor \in {0} \cup Markets, NEW S \in SUBSET Markets, \A m \in S : m > cursor
  PROVE  /\ Advanced(cursor, S) \in {cursor} \cup S
         /\ Advanced(cursor, S) >= cursor
         /\ \A m \in S : Advanced(cursor, S) >= m
<1>1. cursor \in Int
  BY WalkConstants
<1>2. CASE S = {}
  BY <1>1, <1>2 DEF Advanced
<1>3. CASE S # {}
  <2>1. Max(S) \in S /\ \A m \in S : Max(S) >= m
    BY <1>3, SomeMarkets, MaxIsGreatest
  <2>2. Max(S) > cursor /\ Max(S) \in Int
    BY <2>1, SomeMarkets
  <2>3. Advanced(cursor, S) = Max(S)
    BY <1>3 DEF Advanced
  <2>4. Advanced(cursor, S) >= cursor
    BY <1>1, <2>2, <2>3
  <2>. QED
    BY <2>1, <2>3, <2>4
<1>. QED
  BY <1>2, <1>3

\* A batch lies past the cursor and skips no member of the set.
LEMMA BatchSkipsNone ==
  ASSUME NEW S \in SUBSET Markets, NEW cursor \in {0} \cup Markets
  PROVE  /\ NextBatch(S, cursor) \subseteq S
         /\ \A m \in NextBatch(S, cursor) : m > cursor
         /\ \A n \in NextBatch(S, cursor), m \in S :
              m > cursor /\ m <= n => m \in NextBatch(S, cursor)
<1> DEFINE beyond == {m \in S : m > cursor}
           upTo(n) == {k \in beyond : k <= n}
<1>1. NextBatch(S, cursor) = {m \in beyond : Cardinality(upTo(m)) <= BatchSize}
  BY DEF NextBatch
<1>2. ASSUME NEW n \in NextBatch(S, cursor), NEW m \in S, m > cursor, m <= n
      PROVE  m \in NextBatch(S, cursor)
  <2>1. S \subseteq Int /\ n \in S /\ m \in beyond
    BY <1>1, <1>2, SomeMarkets
  <2>2. upTo(m) \subseteq upTo(n)
    <3>1. ASSUME NEW k \in beyond, k <= m PROVE k <= n
      BY <1>2, <2>1, <3>1
    <3>. QED
      BY <3>1
  <2>3. /\ IsFiniteSet(upTo(n))
        /\ Cardinality(upTo(n)) \in Nat /\ Cardinality(upTo(m)) \in Nat
    <3>1. upTo(n) \in SUBSET Markets /\ upTo(m) \in SUBSET Markets
      OBVIOUS
    <3>. HIDE DEF upTo
    <3>. QED
      BY <3>1, SomeMarkets
  <2>4. Cardinality(upTo(m)) <= Cardinality(upTo(n))
    <3>. HIDE DEF upTo
    <3>. QED
      BY <2>2, <2>3, FS_Subset
  <2>5. Cardinality(upTo(n)) <= BatchSize
    BY <1>1, <1>2
  <2>6. Cardinality(upTo(m)) <= BatchSize
    <3>. HIDE DEF upTo
    <3>. QED
      BY <2>3, <2>4, <2>5, WalkConstants
  <2>. QED
    BY <1>1, <2>1, <2>6
<1>. QED
  BY <1>1, <1>2

\* There are finitely many grades.
LEMMA FinitelyManyGrades ==
  ASSUME NEW S \in SUBSET [trade : Trades, won : BOOLEAN]
  PROVE  IsFiniteSet(S) /\ Cardinality(S) \in Nat
<1> DEFINE Of(b) == {[trade |-> t, won |-> b] : t \in Trades}
<1>1. ASSUME NEW b PROVE IsFiniteSet(Of(b))
  <2> DEFINE f == [t \in Trades |-> [trade |-> t, won |-> b]]
  <2>1. f \in Surjection(Trades, Of(b))
    BY DEF Surjection
  <2>2. IsFiniteSet(Trades)
    BY WalkConstants
  <2>. HIDE DEF f, Of
  <2>. QED
    BY <2>1, <2>2, FS_Surjection
<1>2. S \subseteq Of(TRUE) \cup Of(FALSE)
  <2>1. ASSUME NEW g \in S PROVE g \in Of(TRUE) \cup Of(FALSE)
    <3>1. g = [trade |-> g.trade, won |-> g.won] /\ g.trade \in Trades /\ g.won \in BOOLEAN
      OBVIOUS
    <3>2. g.won = TRUE \/ g.won = FALSE
      BY <3>1
    <3>3. CASE g.won = TRUE
      BY <3>1, <3>3, Zenon
    <3>4. CASE g.won = FALSE
      BY <3>1, <3>4, Zenon
    <3>. QED
      BY <3>2, <3>3, <3>4
  <2>. QED
    BY <2>1
<1>3. IsFiniteSet(Of(TRUE) \cup Of(FALSE))
  <2>1. IsFiniteSet(Of(TRUE)) /\ IsFiniteSet(Of(FALSE))
    BY <1>1
  <2>. HIDE DEF Of
  <2>. QED
    BY <2>1, FS_Union
<1>4. IsFiniteSet(S)
  <2>. HIDE DEF Of
  <2>. QED
    BY <1>2, <1>3, FS_Subset
<1>. QED
  BY <1>4, FS_CardinalityType

-----------------------------------------------------------------------------
(***************************************************************************)
(* The steps.                                                              *)
(***************************************************************************)
\* At the start nothing is tagged or graded.
LEMMA WalkInvInit == WalkInit => WalkInv
<1> SUFFICES ASSUME WalkInit PROVE WalkInv
  OBVIOUS
<1>. USE DEF WalkInit
<1>1. WalkTypeOK
  <2>1. resolution \in [Markets -> {Unresolved, NoWinner, 0, 1}]
    OBVIOUS
  <2>2. stats \in [Pairs -> [n : Nat, wins : Nat]] /\ \A k \in Pairs : stats[k].wins <= stats[k].n
    BY DEF NoStat
  <2>. QED
    BY <2>1, <2>2, WalkConstants DEF WalkTypeOK
<1>2. CursorsInOrder
  BY DEF CursorsInOrder
<1>3. GradesAreComplete
  BY DEF GradesAreComplete
<1>. QED
  BY <1>1, <1>2, <1>3 DEF WalkInv

\* A market stays resolved, and as it was.
LEMMA ResolveKeepsWalkInv ==
  ASSUME WalkInv, NEW m \in Markets, Resolve(m)
  PROVE  WalkInv'
<1>. USE DEF WalkInv, Resolve, walkTables
<1>1. /\ resolution' \in [Markets -> {Unresolved, NoWinner, 0, 1}]
      /\ Resolved \subseteq Resolved'
      /\ \A n \in Resolved : resolution'[n] = resolution[n]
  BY WalkConstants DEF WalkTypeOK, Resolved
<1>2. niches \subseteq Resolved /\ \A g \in grades : g.trade.market \in Resolved
  BY WalkConstants DEF WalkTypeOK, GradesAreComplete, Resolved, Unresolved
<1>3. WalkTypeOK'
  BY <1>1 DEF WalkTypeOK
<1>4. CursorsInOrder'
  BY DEF CursorsInOrder
<1>5. GradesAreComplete'
  BY <1>1, <1>2 DEF GradesAreComplete
<1>. QED
  BY <1>3, <1>4, <1>5

\* The tagging transaction starts from the committed cursors and tables.
LEMMA BeginTaggingKeepsWalkInv ==
  ASSUME WalkInv, BeginTagging
  PROVE  WalkInv'
<1>. USE DEF WalkInv, BeginTagging, walkTables
<1>1. batch' \subseteq Resolved /\ \A m \in batch' : m > tagCursor
  <2>1. Resolved \in SUBSET Markets /\ tagCursor \in {0} \cup Markets
    BY DEF Resolved, WalkTypeOK
  <2>. QED
    BY <2>1, BatchSkipsNone DEF Taggable
<1>2. WalkTypeOK'
  BY <1>1 DEF WalkTypeOK, Resolved
<1>3. CursorsInOrder'
  BY <1>1 DEF CursorsInOrder
<1>4. GradesAreComplete'
  BY DEF GradesAreComplete
<1>. QED
  BY <1>2, <1>3, <1>4

\* A failed lookup is counted, and its market remembered.
LEMMA LookupsAreCounted ==
  ASSUME WalkInv, NEW S \in SUBSET Resolved, NEW failed \in Lookups(S), FailedLookups(failed)
  PROVE  faults' \in 0..MaxFaults /\ missed' \subseteq Resolved /\ missed \subseteq missed'
<1>1. failed \in SUBSET Markets
  BY DEF Lookups, Resolved
<1>2. Cardinality(failed) \in Nat
  BY <1>1, SomeMarkets
<1>3. faults + Cardinality(failed) <= MaxFaults /\ failed \subseteq Resolved
  BY DEF Lookups
<1>. QED
  BY <1>2, <1>3, WalkConstants DEF FailedLookups, WalkInv, WalkTypeOK

\* A tagging commit only adds tags and moves the cursor.
LEMMA CommitTaggingKeepsWalkInv ==
  ASSUME WalkInv, CommitTagging
  PROVE  WalkInv'
<1>. USE DEF WalkInv
<1>1. PICK failed \in Lookups(batch) :
        /\ FailedLookups(failed)
        /\ niches' = niches \cup {m \in batch \ failed : NicheOf[m] # NoNiche}
  BY DEF CommitTagging
<1>2. /\ tagCursor' = Advanced(tagCursor, batch) /\ batch' = {}
      /\ UNCHANGED <<resolution, gradeCursor, grades, stats>>
  BY DEF CommitTagging
<1>3. /\ batch \subseteq Resolved /\ Resolved \subseteq Markets /\ Resolved' = Resolved
      /\ tagCursor \in {0} \cup Markets /\ gradeCursor \in {0} \cup Markets
      /\ niches \subseteq Resolved
  BY <1>2 DEF WalkTypeOK, Resolved
<1>4. /\ tagCursor' \in {tagCursor} \cup batch
      /\ tagCursor' >= tagCursor
      /\ \A m \in batch : tagCursor' >= m
  BY <1>2, <1>3, CursorAdvances DEF CursorsInOrder
<1>5. faults' \in 0..MaxFaults /\ missed' \subseteq Resolved /\ missed \subseteq missed'
  BY <1>1, <1>3, LookupsAreCounted
<1>6. WalkTypeOK'
  BY <1>1, <1>2, <1>3, <1>4, <1>5 DEF WalkTypeOK
<1>7. {0} \cup Markets \subseteq Int
  BY WalkConstants
<1>8. CursorsInOrder'
  <2>1. gradeCursor' <= tagCursor'
    BY <1>2, <1>3, <1>4, <1>7 DEF CursorsInOrder
  <2>2. ASSUME NEW m \in niches' PROVE m <= tagCursor'
    <3>1. CASE m \in niches
      BY <3>1, <1>3, <1>4, <1>7 DEF CursorsInOrder
    <3>2. CASE m \in batch
      BY <3>2, <1>3, <1>4, <1>7
    <3>. QED
      BY <1>1, <3>1, <3>2
  <2>. QED
    BY <1>2, <2>1, <2>2 DEF CursorsInOrder
<1>9. GradesAreComplete'
  \* What is tagged now lies past the tagging cursor, hence past the other one.
  <2>1. ASSUME NEW m \in niches' \ niches PROVE ~(m <= gradeCursor)
    BY <1>1, <1>3, <1>7 DEF CursorsInOrder
  <2>. QED
    BY <1>2, <1>5, <2>1 DEF GradesAreComplete
<1>. QED
  BY <1>6, <1>8, <1>9

\* The walk grades every tagged market up to its new cursor, or remembers that
\* its trades could not be fetched.
LEMMA GradeTradesKeepsWalkInv ==
  ASSUME WalkInv, GradeTrades
  PROVE  WalkInv'
<1>. USE DEF WalkInv
<1> DEFINE work == NextBatch(niches \cap Resolved, gradeCursor)
<1>1. PICK failed \in Lookups(work) :
        /\ FailedLookups(failed)
        /\ grades' = grades \cup
             UNION {GradeTrade(t) : t \in {u \in Trades : u.market \in work \ failed}}
  BY DEF GradeTrades
<1>2. /\ gradeCursor' = Advanced(gradeCursor, work)
      /\ UNCHANGED <<resolution, niches, tagCursor, stats, batch>>
  BY DEF GradeTrades
<1>3. /\ niches \subseteq Resolved /\ Resolved \subseteq Markets /\ Resolved' = Resolved
      /\ tagCursor \in {0} \cup Markets /\ gradeCursor \in {0} \cup Markets
      /\ {0} \cup Markets \subseteq Int
  BY <1>2, WalkConstants DEF WalkTypeOK, Resolved
<1>4. /\ work \subseteq niches
      /\ \A m \in work : m > gradeCursor
      /\ \A n \in work, m \in niches : m > gradeCursor /\ m <= n => m \in work
  <2>1. niches \cap Resolved \in SUBSET Markets /\ niches \cap Resolved = niches
    BY <1>3
  <2>. QED
    BY <1>3, <2>1, BatchSkipsNone
<1>5. /\ gradeCursor' \in {gradeCursor} \cup work
      /\ gradeCursor' >= gradeCursor
  <2>1. work \in SUBSET Markets
    BY <1>3, <1>4
  <2>. HIDE DEF work
  <2>. QED
    BY <1>2, <1>3, <1>4, <2>1, CursorAdvances
<1>. HIDE DEF work
<1>6. faults' \in 0..MaxFaults /\ missed' \subseteq Resolved /\ missed \subseteq missed'
  BY <1>1, <1>3, <1>4, LookupsAreCounted
<1>7. ASSUME NEW t \in Trades, NEW g \in GradeTrade(t), t.market \in work
      PROVE  /\ g = [trade |-> t, won |-> (t.outcome = resolution[t.market])]
             /\ t.side = "BUY" /\ resolution[t.market] \in {0, 1}
  <2>1. t.side = "BUY" /\ resolution[t.market] # NoWinner
    BY <1>7, WalkConstants DEF GradeTrade
  <2>2. resolution[t.market] \in {0, 1}
    BY <1>3, <1>4, <1>7, <2>1 DEF Resolved, WalkTypeOK
  <2>. QED
    BY <1>7, <2>1, <2>2 DEF GradeTrade
<1>8. ASSUME NEW g \in grades' \ grades
      PROVE  /\ g.trade \in Trades /\ g = [trade |-> g.trade, won |-> g.won]
             /\ g.won \in BOOLEAN /\ g.trade.side = "BUY"
             /\ resolution[g.trade.market] \in {0, 1}
             /\ g.won <=> g.trade.outcome = resolution[g.trade.market]
  <2>1. PICK t \in Trades : t.market \in work /\ g \in GradeTrade(t)
    BY <1>1
  <2>2. g = [trade |-> t, won |-> (t.outcome = resolution[t.market])]
    BY <1>7, <2>1
  <2>3. t.side = "BUY" /\ resolution[t.market] \in {0, 1}
    BY <1>7, <2>1
  <2>4. g.trade = t /\ g.won = (t.outcome = resolution[t.market])
    BY <2>2, Zenon
  <2>5. (t.outcome = resolution[t.market]) \in BOOLEAN
    OBVIOUS
  <2>. QED
    BY <2>2, <2>3, <2>4, <2>5, Zenon
<1>9. WalkTypeOK'
  <2>1. grades' \subseteq [trade : Trades, won : BOOLEAN]
    <3>1. ASSUME NEW g \in grades' PROVE g \in [trade : Trades, won : BOOLEAN]
      <4>1. CASE g \in grades
        BY <4>1 DEF WalkTypeOK
      <4>2. CASE g \notin grades
        <5>1. /\ g.trade \in Trades /\ g.won \in BOOLEAN
              /\ g = [trade |-> g.trade, won |-> g.won]
          BY <4>2, <1>8
        <5>2. [trade |-> g.trade, won |-> g.won] \in [trade : Trades, won : BOOLEAN]
          BY <5>1
        <5>. QED
          BY <5>1, <5>2, Zenon
      <4>. QED
        BY <4>1, <4>2
    <3>. QED
      BY <3>1
  <2>. QED
    BY <1>2, <1>3, <1>4, <1>5, <1>6, <2>1 DEF WalkTypeOK
<1>10. CursorsInOrder'
  <2>1. gradeCursor' <= tagCursor
    BY <1>3, <1>4, <1>5 DEF CursorsInOrder
  <2>. QED
    BY <1>2, <2>1 DEF CursorsInOrder
<1>11. GradesAreComplete'
  <2>1. ASSUME NEW t \in Trades, t.market \in niches \ missed', t.market <= gradeCursor',
               t.side = "BUY", resolution[t.market] # NoWinner
        PROVE  \E g \in grades' : g.trade = t
    <3>1. CASE t.market <= gradeCursor
      BY <1>1, <1>6, <2>1, <3>1 DEF GradesAreComplete
    <3>2. CASE ~(t.market <= gradeCursor)
      <4>1. t.market \in work
        BY <1>3, <1>4, <1>5, <2>1, <3>2
      <4>2. t.market \notin failed
        BY <1>1, <2>1 DEF FailedLookups
      <4>3. GradeTrade(t) \subseteq grades'
        BY <1>1, <4>1, <4>2
      <4>4. [trade |-> t, won |-> (t.outcome = resolution[t.market])] \in GradeTrade(t)
        BY <2>1, Zenon DEF GradeTrade
      <4>. QED
        BY <4>3, <4>4
    <3>. QED
      BY <3>1, <3>2
  <2>2. ASSUME NEW g \in grades'
        PROVE  /\ g.trade.side = "BUY"
               /\ resolution[g.trade.market] \in {0, 1}
               /\ g.won <=> g.trade.outcome = resolution[g.trade.market]
    BY <1>8 DEF GradesAreComplete
  <2>. QED
    BY <1>2, <2>1, <2>2 DEF GradesAreComplete
<1>. QED
  BY <1>9, <1>10, <1>11

\* The statistics replace their whole table in one commit.
LEMMA ComputeStatsKeepsWalkInv ==
  ASSUME WalkInv, ComputeStats
  PROVE  WalkInv'
<1>. USE DEF WalkInv, ComputeStats
<1>1. ASSUME NEW k \in Pairs
      PROVE  /\ WalletNicheStat(k) \in [n : Nat, wins : Nat]
             /\ WalletNicheStat(k).wins <= WalletNicheStat(k).n
  <2> DEFINE mine == {g \in grades : g.trade.wallet = k[1] /\ NicheOf[g.trade.market] = k[2]}
             won == {g \in mine : g.won}
  <2>1. WalletNicheStat(k) = [n |-> Cardinality(mine), wins |-> Cardinality(won)]
    BY DEF WalletNicheStat
  <2>2. mine \in SUBSET [trade : Trades, won : BOOLEAN] /\ won \in SUBSET mine
    BY DEF WalkTypeOK
  <2>. HIDE DEF mine, won
  <2>3. IsFiniteSet(mine) /\ Cardinality(mine) \in Nat
    BY <2>2, FinitelyManyGrades
  <2>4. Cardinality(won) \in Nat /\ Cardinality(won) <= Cardinality(mine)
    BY <2>2, <2>3, FS_Subset, FS_CardinalityType
  <2>. QED
    BY <2>1, <2>3, <2>4
<1>2. WalkTypeOK'
  BY <1>1 DEF WalkTypeOK, Resolved
<1>3. CursorsInOrder'
  BY DEF CursorsInOrder
<1>4. GradesAreComplete'
  BY DEF GradesAreComplete
<1>. QED
  BY <1>2, <1>3, <1>4

\* A failed stage leaves what its earlier stages committed.
LEMMA FailDiscoveryKeepsWalkInv ==
  ASSUME WalkInv, FailDiscovery
  PROVE  WalkInv'
<1>. USE DEF WalkInv, FailDiscovery, walkTables
<1>1. WalkTypeOK'
  BY WalkConstants DEF WalkTypeOK, Resolved
<1>2. CursorsInOrder'
  BY DEF CursorsInOrder
<1>3. GradesAreComplete'
  BY DEF GradesAreComplete
<1>. QED
  BY <1>1, <1>2, <1>3

\* A step that leaves the walks' tables alone, whatever stage comes next.
LEMMA OthersKeepWalkInv ==
  ASSUME WalkInv, UNCHANGED <<resolution, walkTables, batch, missed, faults>>
  PROVE  WalkInv'
BY DEF WalkInv, WalkTypeOK, CursorsInOrder, GradesAreComplete, Resolved, walkTables

\* Every step of the walk keeps its invariant.
LEMMA WalkKeepsWalkInv ==
  ASSUME WalkInv, Walk
  PROVE  WalkInv'
BY BeginTaggingKeepsWalkInv, CommitTaggingKeepsWalkInv, GradeTradesKeepsWalkInv,
   ComputeStatsKeepsWalkInv DEF Walk

-----------------------------------------------------------------------------
(***************************************************************************)
(* The whole sweep.                                                        *)
(***************************************************************************)
StageOK ==
  stage \in {"tag", "tagging", "grade", "stats", "promote", "forward", "forwarding"}

ClockOK ==
  /\ now \in 0..MaxTime /\ runAt \in {Never} \cup 0..MaxTime
  /\ stage = "forwarding" => runAt # Never

TrackedOK ==
  /\ detected \in [Positions -> {Never} \cup 0..MaxTime]
  /\ nicheTracked \subseteq Wallets
  /\ forward \subseteq Positions /\ graded \subseteq forward \ Unpriced
  /\ \A p \in forward : detected[p] # Never /\ MarketOf[p] \in niches

StagesOK ==
  /\ pipeline \in [Pairs -> {Absent} \cup PipelineRow]
  /\ \A k \in Pairs : pipeline[k].stage \in Vetted => pipeline[k].since # Never

WindowsOK == windows \in [Pairs -> Seq(WindowRow)] /\ WindowsFollow

PassedIn(w) == {i \in DOMAIN w : w[i].passed}

WatchlistIsEarned ==
  \A k \in Pairs : pipeline[k].stage = "WATCHLIST" =>
    Len(windows[k]) >= 1 /\ Last(windows[k]).passed

EvidenceOK == WindowsOK /\ WatchlistIsEarned /\ ValidatedIsEarned

IInv == WalkInv /\ StageOK /\ ClockOK /\ TrackedOK /\ StagesOK /\ EvidenceOK

-----------------------------------------------------------------------------
(***************************************************************************)
(* Lemmas about windows.                                                   *)
(***************************************************************************)
\* A sequence of windows with one more.
LEMMA AppendedWindow ==
  ASSUME NEW w \in Seq(WindowRow), NEW row \in WindowRow
  PROVE  /\ Append(w, row) \in Seq(WindowRow)
         /\ Len(w) \in Nat /\ Len(Append(w, row)) = Len(w) + 1
         /\ DOMAIN w = 1..Len(w) /\ DOMAIN Append(w, row) = 1..(Len(w) + 1)
         /\ \A i \in 1..Len(w) : Append(w, row)[i] = w[i]
         /\ Append(w, row)[Len(w) + 1] = row
         /\ Last(Append(w, row)) = row
<1>1. /\ Append(w, row) \in Seq(WindowRow)
      /\ Len(Append(w, row)) = Len(w) + 1
      /\ \A i \in 1..Len(w) : Append(w, row)[i] = w[i]
      /\ Append(w, row)[Len(w) + 1] = row
  BY AppendProperties
<1>2. /\ Len(w) \in Nat /\ DOMAIN w = 1..Len(w)
      /\ DOMAIN Append(w, row) = 1..(Len(w) + 1)
  BY <1>1, LenProperties
<1>. QED
  BY <1>1, <1>2 DEF Last

\* A passing window is one more passing window.
LEMMA PassingCounts ==
  ASSUME NEW w \in Seq(WindowRow), NEW row \in WindowRow, row.passed
  PROVE  /\ Cardinality(PassedIn(w)) \in Nat
         /\ Cardinality(PassedIn(Append(w, row))) = Cardinality(PassedIn(w)) + 1
<1>1. PassedIn(Append(w, row)) = PassedIn(w) \cup {Len(w) + 1} /\ Len(w) + 1 \notin PassedIn(w)
  BY AppendedWindow DEF PassedIn
<1>2. IsFiniteSet(PassedIn(w))
  <2>1. PassedIn(w) \in SUBSET (1..Len(w)) /\ Len(w) \in Nat
    BY AppendedWindow DEF PassedIn
  <2>2. IsFiniteSet(1..Len(w))
    BY <2>1, FS_Interval
  <2>. QED
    BY <2>1, <2>2, FS_Subset
<1>. QED
  BY <1>1, <1>2, FS_AddElement, FS_CardinalityType

-----------------------------------------------------------------------------
(***************************************************************************)
(* The steps around the forward run.                                       *)
(***************************************************************************)
LEMMA IInvInit == Init => IInv
<1> SUFFICES ASSUME Init PROVE IInv
  OBVIOUS
<1>. USE DEF Init
<1>1. WalkInv
  BY WalkInvInit
<1>2. StageOK /\ ClockOK /\ TrackedOK
  BY PipelineConstants DEF WalkInit, StageOK, ClockOK, TrackedOK, Never
<1>3. StagesOK
  BY DEF StagesOK, Absent, Vetted
<1>4. EvidenceOK
  <2>1. \A k \in Pairs : windows[k] = <<>> /\ pipeline[k].stage = "NONE"
    BY DEF Absent
  <2>2. windows \in [Pairs -> Seq(WindowRow)]
    BY EmptySeq
  <2>3. WindowsFollow /\ WatchlistIsEarned /\ ValidatedIsEarned
    BY <2>1 DEF WindowsFollow, WatchlistIsEarned, ValidatedIsEarned
  <2>. QED
    BY <2>2, <2>3 DEF EvidenceOK, WindowsOK
<1>. QED
  BY <1>1, <1>2, <1>3, <1>4 DEF IInv

\* What is evident depends on the pipeline's rows and windows alone.
LEMMA SameEvidence ==
  ASSUME EvidenceOK, UNCHANGED <<pipeline, windows>>
  PROVE  EvidenceOK'
BY DEF EvidenceOK, WindowsOK, WindowsFollow, WatchlistIsEarned, ValidatedIsEarned

\* The clock only grows, so what lay in the past still does.
LEMMA TickKeepsIInv == IInv /\ Tick => IInv'
<1> SUFFICES ASSUME IInv, Tick PROVE IInv'
  OBVIOUS
<1>. USE DEF IInv, Tick, walkVars, walkTables, pipelineVars
<1>1. WalkInv'
  BY OthersKeepWalkInv
<1>2. StageOK' /\ ClockOK' /\ TrackedOK' /\ StagesOK'
  BY PipelineConstants DEF StageOK, ClockOK, TrackedOK, StagesOK
<1>. QED
  BY <1>1, <1>2, SameEvidence

\* A new entry is dated no earlier than any window that closed.
LEMMA OpenPositionKeepsIInv ==
  ASSUME IInv, NEW p \in Positions, OpenPosition(p)
  PROVE  IInv'
<1>. USE DEF IInv, OpenPosition, walkVars, walkTables, pipelineVars
<1>1. WalkInv'
  BY OthersKeepWalkInv
<1>2. TrackedOK'
  BY DEF ClockOK, TrackedOK, Never
<1>3. StageOK' /\ ClockOK' /\ StagesOK'
  BY DEF StageOK, ClockOK, StagesOK
<1>. QED
  BY <1>1, <1>2, <1>3, SameEvidence

\* A resolution touches no row of the pipeline.
LEMMA ResolveKeepsIInv ==
  ASSUME IInv, NEW m \in Markets, Resolve(m), UNCHANGED <<pipelineRest, runAt>>
  PROVE  IInv'
<1>. USE DEF IInv, Resolve, walkTables, pipelineRest, pipelineVars
<1>1. WalkInv'
  BY ResolveKeepsWalkInv
<1>2. StageOK' /\ ClockOK' /\ TrackedOK' /\ StagesOK'
  BY DEF StageOK, ClockOK, TrackedOK, StagesOK
<1>. QED
  BY <1>1, <1>2, SameEvidence

\* The walks only add tags.
LEMMA WalkKeepsIInv ==
  ASSUME IInv, Walk, UNCHANGED <<pipelineRest, runAt>>
  PROVE  IInv'
<1>. USE DEF IInv, pipelineRest, pipelineVars
<1>1. WalkInv'
  BY WalkKeepsWalkInv
<1>2. niches \subseteq niches' /\ stage' \in {"tagging", "grade", "stats", "promote"}
  BY DEF Walk, BeginTagging, CommitTagging, GradeTrades, ComputeStats, walkTables
<1>3. StageOK' /\ ClockOK' /\ TrackedOK' /\ StagesOK'
  BY <1>2 DEF StageOK, ClockOK, TrackedOK, StagesOK
<1>. QED
  BY <1>1, <1>3, SameEvidence

\* Only a pair without standing gets a new row, and its windows stay.
LEMMA PromoteKeepsIInv == IInv /\ Promote => IInv'
<1> SUFFICES ASSUME IInv, Promote PROVE IInv'
  OBVIOUS
<1>. USE DEF IInv, Promote
<1>1. WalkInv'
  BY OthersKeepWalkInv DEF walkTables
<1>2. ASSUME NEW k \in Pairs
      PROVE  /\ pipeline'[k] \in {Absent} \cup PipelineRow
             /\ pipeline'[k].stage \in Vetted => pipeline'[k].since # Never
             /\ pipeline'[k] = pipeline[k] \/ pipeline'[k].stage \in {"CANDIDATE", "REJECTED"}
  <2>1. pipeline'[k] = Promoted(k)
    OBVIOUS
  <2>2. CASE k \in Judged /\ Passes(k)
    <3>1. pipeline'[k] = [stage |-> "CANDIDATE", since |-> now]
      BY <2>1, <2>2 DEF Promoted
    <3>. QED
      BY <3>1 DEF ClockOK, PipelineRow, Active, Vetted, Never
  <2>3. CASE k \in Judged /\ ~Passes(k)
    <3>1. pipeline'[k] = [stage |-> "REJECTED", since |-> Never]
      BY <2>1, <2>3 DEF Promoted
    <3>. QED
      BY <3>1 DEF PipelineRow, Active, Vetted
  <2>4. CASE k \notin Judged
    <3>1. pipeline'[k] = pipeline[k]
      BY <2>1, <2>4 DEF Promoted
    <3>. QED
      BY <3>1 DEF StagesOK
  <2>. QED
    BY <2>2, <2>3, <2>4
<1>3. StagesOK'
  <2>1. pipeline' = [k \in Pairs |-> pipeline'[k]]
    OBVIOUS
  <2>. QED
    BY <1>2, <2>1 DEF StagesOK
<1>4. nicheTracked' \subseteq Wallets
  <2>1. DOMAIN Ranked \subseteq Wallets
    BY DEF Ranked, Pairs
  <2>2. nicheTracked' \subseteq DOMAIN Ranked
    BY DEF TopSets
  <2>. QED
    BY <2>1, <2>2
<1>5. StageOK' /\ ClockOK' /\ TrackedOK'
  BY <1>4 DEF StageOK, ClockOK, TrackedOK, walkTables
<1>6. EvidenceOK'
  <2>1. windows' = windows
    OBVIOUS
  <2>2. WatchlistIsEarned' /\ ValidatedIsEarned'
    BY <1>2, <2>1 DEF EvidenceOK, WatchlistIsEarned, ValidatedIsEarned
  <2>. QED
    BY <2>1, <2>2 DEF EvidenceOK, WindowsOK, WindowsFollow
<1>. QED
  BY <1>1, <1>3, <1>5, <1>6

\* A forward transaction starts from the committed rows, with the clock it read.
LEMMA BeginForwardKeepsIInv == IInv /\ BeginForward => IInv'
<1> SUFFICES ASSUME IInv, BeginForward PROVE IInv'
  OBVIOUS
<1>. USE DEF IInv, BeginForward, walkTables, pipelineVars
<1>1. WalkInv'
  BY OthersKeepWalkInv
<1>2. StageOK' /\ ClockOK' /\ TrackedOK' /\ StagesOK'
  BY PipelineConstants DEF StageOK, ClockOK, TrackedOK, StagesOK, Never
<1>. QED
  BY <1>1, <1>2, SameEvidence

\* A rolled back forward transaction leaves no trace.
LEMMA FailKeepsIInv ==
  ASSUME IInv, FailDiscovery, runAt' = Never, UNCHANGED pipelineRest
  PROVE  IInv'
<1>. USE DEF IInv, FailDiscovery, pipelineRest, walkTables, pipelineVars
<1>1. WalkInv'
  BY FailDiscoveryKeepsWalkInv
<1>2. StageOK' /\ ClockOK' /\ TrackedOK' /\ StagesOK'
  BY DEF StageOK, ClockOK, TrackedOK, StagesOK
<1>. QED
  BY <1>1, <1>2, SameEvidence

-----------------------------------------------------------------------------
(***************************************************************************)
(* The forward run.                                                        *)
(***************************************************************************)

\* A window is closed only if it is due, and it starts where the last one ended.
LEMMA ClosedWindow ==
  ASSUME IInv, stage = "forwarding", NEW k \in Closing
  PROVE  /\ Window(k) \in WindowRow
         /\ Window(k).end - Window(k).start >= ValidationSpan
         /\ windows[k] # <<>> => Window(k).start = Last(windows[k]).end
         /\ Window(k).passed = Passed(k)
<1>. USE DEF IInv
<1>1. k \in Pairs /\ pipeline[k].stage \in Vetted /\ runAt - WindowStart(k) >= ValidationSpan
  BY DEF Closing, WindowReadyToClose
<1>2. Window(k) = [start |-> WindowStart(k), end |-> runAt, passed |-> Passed(k)]
  BY DEF Window
<1>3. runAt \in 0..MaxTime
  BY DEF ClockOK
<1>4. WindowStart(k) \in 0..MaxTime
  <2>1. CASE windows[k] = <<>>
    <3>1. pipeline[k] \in PipelineRow
      BY <1>1 DEF StagesOK, Absent, Vetted
    <3>2. pipeline[k].since \in 0..MaxTime
      BY <1>1, <3>1 DEF StagesOK, PipelineRow
    <3>. QED
      BY <2>1, <3>2 DEF WindowStart
  <2>2. CASE windows[k] # <<>>
    <3>1. windows[k] \in Seq(WindowRow)
      BY <1>1 DEF EvidenceOK, WindowsOK
    <3>2. Len(windows[k]) \in 1..Len(windows[k])
      BY <2>2, <3>1, EmptySeq
    <3>3. Last(windows[k]) \in WindowRow
      BY <3>1, <3>2, ElementOfSeq DEF Last
    <3>4. Last(windows[k]).end \in 0..MaxTime
      BY <3>3 DEF WindowRow
    <3>. QED
      BY <2>2, <3>4 DEF WindowStart
  <2>. QED
    BY <2>1, <2>2
<1>5. Passed(k) \in BOOLEAN
  BY DEF Passed, CiLowAboveZero
<1>6. Window(k) \in WindowRow
  BY <1>2, <1>3, <1>4, <1>5 DEF WindowRow
<1>7. /\ Window(k).start = WindowStart(k) /\ Window(k).end = runAt
      /\ Window(k).passed = Passed(k)
  BY <1>2
<1>8. windows[k] # <<>> => WindowStart(k) = Last(windows[k]).end
  BY DEF WindowStart
<1>. QED
  BY <1>1, <1>6, <1>7, <1>8

\* A pair whose window closes: what it had, with the window appended.
LEMMA ClosingPair ==
  ASSUME IInv, CommitForward, NEW k \in Closing
  PROVE  /\ k \in Pairs /\ windows[k] \in Seq(WindowRow)
         /\ windows'[k] = Append(windows[k], Window(k))
         /\ pipeline'[k].stage = Verdict(k) /\ pipeline'[k].since = pipeline[k].since
         /\ pipeline'[k] \in PipelineRow /\ pipeline[k].since # Never
<1>. USE DEF IInv
<1>1. k \in Pairs /\ pipeline[k].stage \in Vetted
  BY DEF Closing
<1>2. pipeline'[k] = [pipeline[k] EXCEPT !.stage = Verdict(k)]
  BY <1>1 DEF CommitForward
<1>3. pipeline[k] \in PipelineRow /\ pipeline[k].since # Never
  BY <1>1 DEF StagesOK, Absent, Vetted
<1>4. Verdict(k) \in {"REJECTED", "VALIDATED", "WATCHLIST"}
  BY DEF Verdict
<1>5. windows'[k] = Append(windows[k], Window(k))
  BY <1>1 DEF CommitForward
<1>. HIDE DEF Verdict
<1>6. pipeline'[k].stage = Verdict(k) /\ pipeline'[k].since = pipeline[k].since
  BY <1>2, <1>3 DEF PipelineRow
<1>7. pipeline'[k] \in PipelineRow
  BY <1>2, <1>3, <1>4 DEF PipelineRow, Active, Vetted
<1>. QED
  BY <1>1, <1>3, <1>5, <1>6, <1>7 DEF EvidenceOK, WindowsOK

\* The other pairs keep what they have.
LEMMA OtherPair ==
  ASSUME CommitForward, NEW k \in Pairs, k \notin Closing
  PROVE  windows'[k] = windows[k] /\ pipeline'[k] = pipeline[k]
BY DEF CommitForward

\* What a forward commit writes keeps the windows in order.
LEMMA CommitKeepsWindows ==
  ASSUME IInv, CommitForward
  PROVE  WindowsOK'
<1>. USE DEF IInv, EvidenceOK
<1>1. stage = "forwarding"
  BY DEF CommitForward
<1>2. ASSUME NEW k \in Pairs
      PROVE  /\ windows'[k] \in Seq(WindowRow)
             /\ \A i \in DOMAIN windows'[k] :
                  /\ windows'[k][i].end - windows'[k][i].start >= ValidationSpan
                  /\ i > 1 => windows'[k][i].start = windows'[k][i - 1].end
  <2>1. CASE k \in Closing
    <3> DEFINE w == windows[k]
               row == Window(k)
               n == Len(w)
    <3>1. w \in Seq(WindowRow) /\ windows'[k] = Append(w, row)
      BY <2>1, ClosingPair
    <3>2. /\ row \in WindowRow /\ row.end - row.start >= ValidationSpan
          /\ w # <<>> => row.start = w[n].end
      BY <1>1, <2>1, ClosedWindow DEF Last
    <3>3. \A i \in DOMAIN w : /\ w[i].end - w[i].start >= ValidationSpan
                              /\ i > 1 => w[i].start = w[i - 1].end
      BY <1>2 DEF WindowsOK, WindowsFollow
    <3>. HIDE DEF row, w
    <3>4. /\ windows'[k] \in Seq(WindowRow) /\ n \in Nat
          /\ DOMAIN w = 1..n /\ DOMAIN windows'[k] = 1..(n + 1)
          /\ \A i \in 1..n : windows'[k][i] = w[i]
          /\ windows'[k][n + 1] = row
      BY <3>1, <3>2, AppendedWindow
    <3>5. ASSUME NEW i \in 1..(n + 1)
          PROVE  /\ windows'[k][i].end - windows'[k][i].start >= ValidationSpan
                 /\ i > 1 => windows'[k][i].start = windows'[k][i - 1].end
      <4>1. CASE i \in 1..n
        <5>1. i > 1 => i - 1 \in 1..n
          BY <4>1, <3>4
        <5>2. i \in DOMAIN w /\ windows'[k][i] = w[i]
          BY <4>1, <3>4
        <5>3. i > 1 => windows'[k][i - 1] = w[i - 1]
          BY <5>1, <3>4
        <5>4. w[i].end - w[i].start >= ValidationSpan /\ (i > 1 => w[i].start = w[i - 1].end)
          BY <5>2, <3>3, Zenon
        <5>. QED
          BY <5>2, <5>3, <5>4
      <4>2. CASE i = n + 1
        <5>1. ASSUME i > 1 PROVE row.start = windows'[k][i - 1].end
          <6>1. i - 1 = n /\ n \in 1..n
            BY <4>2, <5>1, <3>4
          <6>2. w # <<>>
            BY <6>1, <3>4, <3>1, EmptySeq DEF w
          <6>. QED
            BY <6>1, <6>2, <3>2, <3>4
        <5>. QED
          BY <4>2, <5>1, <3>2, <3>4
      <4>. QED
        BY <3>4, <4>1, <4>2
    <3>. QED
      BY <3>4, <3>5
  <2>2. CASE k \notin Closing
    BY <1>2, <2>2, OtherPair DEF WindowsOK, WindowsFollow
  <2>. QED
    BY <2>1, <2>2
<1>3. windows' = [k \in Pairs |-> windows'[k]]
  BY DEF CommitForward
<1>. QED
  BY <1>2, <1>3 DEF WindowsOK, WindowsFollow

\* A pair reaches the watchlist by a window that passed, and is validated there
\* by another one, when Confirmations of them had passed before.
LEMMA CommitKeepsEvidence ==
  ASSUME IInv, CommitForward
  PROVE  WatchlistIsEarned' /\ ValidatedIsEarned'
<1>. USE DEF IInv, EvidenceOK
<1>1. ASSUME NEW k \in Pairs, pipeline'[k].stage \in {"WATCHLIST", "VALIDATED"}
      PROVE  /\ Len(windows'[k]) >= 1 /\ Last(windows'[k]).passed
             /\ pipeline'[k].stage = "VALIDATED" =>
                  /\ Len(windows'[k]) >= 2
                  /\ windows'[k][Len(windows'[k]) - 1].passed
                  /\ Cardinality(PassedIn(windows'[k])) > Confirmations
  <2>1. CASE k \in Closing
    <3> DEFINE w == windows[k]
               row == Window(k)
    <3>1. w \in Seq(WindowRow) /\ windows'[k] = Append(w, row) /\ pipeline'[k].stage = Verdict(k)
      BY <2>1, ClosingPair
    <3>2. row \in WindowRow /\ row.passed = Passed(k)
      BY <2>1, ClosedWindow DEF CommitForward
    <3>3. Passed(k)
      BY <1>1, <3>1 DEF Verdict
    <3>4. Verdict(k) = "VALIDATED" =>
            pipeline[k].stage = "WATCHLIST" /\ CountPassingWindows(k) >= Confirmations
      BY <3>3 DEF Verdict
    <3>5. CountPassingWindows(k) = Cardinality(PassedIn(w))
      BY DEF CountPassingWindows, PassedIn
    <3>6. pipeline[k].stage = "WATCHLIST" => Len(w) >= 1 /\ w[Len(w)].passed
      BY <1>1 DEF WatchlistIsEarned, Last
    <3>. HIDE DEF row, w
    <3>7. /\ Len(w) \in Nat /\ Len(windows'[k]) = Len(w) + 1
          /\ \A i \in 1..Len(w) : windows'[k][i] = w[i]
          /\ Last(windows'[k]) = row
      BY <3>1, <3>2, AppendedWindow
    <3>8. /\ Cardinality(PassedIn(w)) \in Nat
          /\ Cardinality(PassedIn(windows'[k])) = Cardinality(PassedIn(w)) + 1
      BY <3>1, <3>2, <3>3, PassingCounts
    <3>9. Len(windows'[k]) >= 1 /\ Last(windows'[k]).passed
      <4>1. Len(windows'[k]) >= 1
        BY <3>7
      <4>2. row.passed
        BY <3>2, <3>3, Zenon
      <4>. QED
        BY <4>1, <4>2, <3>7, Zenon
    <3>10. ASSUME pipeline'[k].stage = "VALIDATED"
           PROVE  /\ Len(windows'[k]) >= 2
                  /\ windows'[k][Len(windows'[k]) - 1].passed
                  /\ Cardinality(PassedIn(windows'[k])) > Confirmations
      <4>1. Len(w) >= 1 /\ w[Len(w)].passed /\ Cardinality(PassedIn(w)) >= Confirmations
        BY <3>1, <3>4, <3>5, <3>6, <3>10
      <4>2. Len(windows'[k]) - 1 = Len(w) /\ Len(w) \in 1..Len(w)
        BY <3>7, <4>1
      <4>3. windows'[k][Len(w)] = w[Len(w)]
        BY <3>7, <4>2
      <4>4. Cardinality(PassedIn(windows'[k])) > Confirmations
        BY <3>8, <4>1, PipelineConstants
      <4>. QED
        BY <3>7, <4>1, <4>2, <4>3, <4>4
    <3>. QED
      BY <3>9, <3>10
  <2>2. CASE k \notin Closing
    <3>1. windows'[k] = windows[k] /\ pipeline'[k] = pipeline[k]
      BY <2>2, OtherPair
    <3>2. CASE pipeline[k].stage = "WATCHLIST"
      BY <3>1, <3>2, <1>1 DEF WatchlistIsEarned
    <3>3. CASE pipeline[k].stage = "VALIDATED"
      <4>1. /\ Len(windows[k]) >= 2 /\ Last(windows[k]).passed
            /\ windows[k][Len(windows[k]) - 1].passed
            /\ Cardinality(PassedIn(windows[k])) > Confirmations
        BY <3>3, <1>1 DEF ValidatedIsEarned, PassedIn
      <4>2. Len(windows[k]) \in Nat
        BY <1>1, LenProperties DEF WindowsOK
      <4>. QED
        BY <3>1, <4>1, <4>2
    <3>. QED
      BY <1>1, <3>1, <3>2, <3>3
  <2>. QED
    BY <2>1, <2>2
<1>. QED
  BY <1>1 DEF WatchlistIsEarned, ValidatedIsEarned, PassedIn

\* The commit of forward tracking keeps the whole invariant.
LEMMA CommitForwardKeepsIInv == IInv /\ CommitForward => IInv'
<1> SUFFICES ASSUME IInv, CommitForward PROVE IInv'
  OBVIOUS
<1>. USE DEF IInv
<1>1. /\ UNCHANGED <<resolution, walkTables, batch, missed, faults, now, detected, nicheTracked>>
      /\ runAt' = Never /\ stage' = "tag" /\ stage = "forwarding"
  BY DEF CommitForward
<1>2. WalkInv'
  BY <1>1, OthersKeepWalkInv
<1>3. StageOK' /\ ClockOK'
  BY <1>1 DEF StageOK, ClockOK
<1>4. TrackedOK'
  <2>1. forward' = forward \cup NewForwardTrades
    BY DEF CommitForward
  <2>2. PICK taken \in DueFills : graded' = graded \cup (taken \ Unpriced)
    BY DEF CommitForward
  <2>3. taken \subseteq forward
    BY DEF DueFills
  <2>4. \A p \in NewForwardTrades : p \in Positions /\ detected[p] # Never /\ MarketOf[p] \in niches
    BY DEF NewForwardTrades
  <2>. QED
    BY <1>1, <2>1, <2>2, <2>3, <2>4 DEF TrackedOK, walkTables
<1>5. StagesOK'
  <2>1. ASSUME NEW k \in Pairs
        PROVE  /\ pipeline'[k] \in {Absent} \cup PipelineRow
               /\ pipeline'[k].stage \in Vetted => pipeline'[k].since # Never
    BY ClosingPair, OtherPair DEF StagesOK
  <2>2. pipeline' = [k \in Pairs |-> pipeline'[k]]
    BY DEF CommitForward
  <2>. QED
    BY <2>1, <2>2 DEF StagesOK
<1>6. EvidenceOK'
  BY CommitKeepsWindows, CommitKeepsEvidence DEF EvidenceOK
<1>. QED
  BY <1>2, <1>3, <1>4, <1>5, <1>6

\* The invariant reads nothing but the variables.
LEMMA StutterKeepsIInv == IInv /\ UNCHANGED vars => IInv'
<1> SUFFICES ASSUME IInv, UNCHANGED vars PROVE IInv'
  OBVIOUS
<1>. USE DEF IInv, vars, walkVars, walkTables, pipelineVars
<1>1. WalkInv'
  BY OthersKeepWalkInv
<1>2. StageOK' /\ ClockOK' /\ TrackedOK' /\ StagesOK'
  BY DEF StageOK, ClockOK, TrackedOK, StagesOK
<1>. QED
  BY <1>1, <1>2, SameEvidence

\* Every step keeps the invariant: one lemma for each action.
LEMMA IInvStep == IInv /\ [Next]_vars => IInv'
<1> SUFFICES ASSUME IInv, [Next]_vars PROVE IInv'
  OBVIOUS
<1>1. CASE Tick
  BY <1>1, TickKeepsIInv
<1>2. ASSUME NEW p \in Positions, OpenPosition(p) PROVE IInv'
  BY <1>2, OpenPositionKeepsIInv
<1>3. ASSUME NEW m \in Markets, Resolve(m), UNCHANGED <<pipelineRest, runAt>> PROVE IInv'
  BY <1>3, ResolveKeepsIInv
<1>4. CASE Walk /\ UNCHANGED <<pipelineRest, runAt>>
  BY <1>4, WalkKeepsIInv
<1>5. CASE Promote
  BY <1>5, PromoteKeepsIInv
<1>6. CASE BeginForward
  BY <1>6, BeginForwardKeepsIInv
<1>7. CASE CommitForward
  BY <1>7, CommitForwardKeepsIInv
<1>8. CASE FailDiscovery /\ runAt' = Never /\ UNCHANGED pipelineRest
  BY <1>8, FailKeepsIInv
<1>9. CASE UNCHANGED vars
  BY <1>9, StutterKeepsIInv
<1>. QED
  BY <1>1, <1>2, <1>3, <1>4, <1>5, <1>6, <1>7, <1>8, <1>9 DEF Next, World, Sweep

-----------------------------------------------------------------------------
(***************************************************************************)
(* The theorems.                                                           *)
(***************************************************************************)

\* The invariant holds in every reachable state.
THEOREM Invariance == Spec => []IInv
BY IInvInit, IInvStep, PTL DEF Spec

\* Type correctness of the sweep's tables and cursors.
THEOREM TypeCorrect == Spec => []TypeOK
<1>1. IInv => TypeOK
  BY DEF IInv, WalkInv, StageOK, ClockOK, TrackedOK, StagesOK, EvidenceOK, WindowsOK, TypeOK
<1>. QED
  BY <1>1, Invariance, PTL

\* No tagged market is left behind the grading cursor, and every grade is right
\* (app/discovery/walk.py and trades.py), for any order of resolutions, batch
\* size, failed lookups and interrupted sweeps.
THEOREM GradingIsComplete == Spec => []GradesAreComplete
<1>1. IInv => GradesAreComplete
  BY DEF IInv, WalkInv
<1>. QED
  BY <1>1, Invariance, PTL

\* The windows of a pair never overlap, over all its attempts
\* (current_window_start of app/discovery/forward.py).
THEOREM WindowsAreDisjoint == Spec => []WindowsFollow
<1>1. IInv => WindowsFollow
  BY DEF IInv, EvidenceOK, WindowsOK
<1>. QED
  BY <1>1, Invariance, PTL

\* Only a pair whose last two windows passed, after Confirmations others or
\* more, is validated (_count_passing_windows).
THEOREM ValidationIsEarned == Spec => []ValidatedIsEarned
<1>1. IInv => ValidatedIsEarned
  BY DEF IInv, EvidenceOK
<1>. QED
  BY <1>1, Invariance, PTL
=============================================================================
