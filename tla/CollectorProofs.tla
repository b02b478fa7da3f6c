--------------------------- MODULE CollectorProofs ---------------------------
(***************************************************************************)
(* Proofs about the collectors: MarketSync keeps its type invariant and    *)
(* takes only the steps MarketFeed allows; PositionSweep keeps its types,  *)
(* its event log in step with its rows, takes no old position for a new    *)
(* one and stores a wallet that stands still exactly as it is.             *)
(***************************************************************************)
EXTENDS MarketSync, PositionSweep, Sums, SequenceTheorems

\* A set of indices and what a function makes of it.
LEMMA ImageIsSmaller ==
  ASSUME NEW S, IsFiniteSet(S), NEW f
  PROVE  /\ IsFiniteSet({f[x] : x \in S})
         /\ Cardinality({f[x] : x \in S}) <= Cardinality(S)
<1> DEFINE g == [x \in S |-> f[x]]
           V == {f[x] : x \in S}
<1>1. g \in Surjection(S, V)
  BY DEF Surjection
<1>. HIDE DEF g, V
<1>. QED
  BY <1>1, FS_Surjection DEF V

\* FirstIn takes members of both, and no more than it is asked for.
LEMMA FirstInIsBounded ==
  ASSUME NEW T, NEW order \in Seq(T), NEW S, NEW n \in Nat
  PROVE  /\ FirstIn(order, S, n) \subseteq S \cap T
         /\ IsFiniteSet(FirstIn(order, S, n)) /\ Cardinality(FirstIn(order, S, n)) <= n
<1> DEFINE before(j) == {k \in 1..j : order[k] \in S}
           J == {j \in DOMAIN order : order[j] \in S /\ Cardinality(before(j)) <= n}
<1>0. DOMAIN order = 1..Len(order) /\ Len(order) \in Nat
  OBVIOUS
<1>1. \A j \in Nat : IsFiniteSet(before(j))
  <2>1. \A j \in Nat : before(j) \subseteq 1..j
    OBVIOUS
  <2>. QED
    BY <2>1, FirstNumbers, FS_Subset
<1>2. J \in SUBSET (1..Len(order)) /\ \A i \in J : Cardinality(before(i)) <= n
  BY <1>0
<1>3. IsFiniteSet(J) /\ Cardinality(J) <= n
  <2>. HIDE DEF J
  <2>1. IsFiniteSet(1..Len(order))
    BY <1>0, FirstNumbers
  <2>2. IsFiniteSet(J)
    BY <1>2, <2>1, FS_Subset
  <2>3. CASE J = {}
    BY <2>3, FS_EmptySet
  <2>4. CASE J # {}
    <3>1. J \in SUBSET Int
      BY <1>2
    <3>2. PICK j \in J : \A i \in J : i <= j
      BY <2>2, <2>4, <3>1, GreatestOfFinite
    <3>3. j \in Nat /\ \A i \in J : i \in 1..j
      BY <1>2, <3>2
    <3>4. J \subseteq before(j)
      BY <3>3 DEF J
    <3>5. IsFiniteSet(before(j))
      BY <1>1, <3>3
    <3>6. Cardinality(J) <= Cardinality(before(j)) /\ Cardinality(J) \in Nat
      BY <3>4, <3>5, FS_Subset, FS_CardinalityType
    <3>7. Cardinality(before(j)) <= n /\ Cardinality(before(j)) \in Nat
      BY <1>2, <3>2, <3>5, FS_CardinalityType
    <3>. QED
      BY <2>2, <3>6, <3>7
  <2>. QED
    BY <2>3, <2>4
<1>4. FirstIn(order, S, n) = {order[i] : i \in J}
  BY DEF FirstIn
<1>5. J \subseteq DOMAIN order /\ \A i \in J : order[i] \in S
  OBVIOUS
<1>6. \A i \in J : order[i] \in T
  BY <1>0, <1>5
<1>. HIDE DEF J
<1>7. /\ IsFiniteSet({order[i] : i \in J})
      /\ Cardinality({order[i] : i \in J}) <= Cardinality(J)
  BY <1>3, ImageIsSmaller
<1>8. Cardinality({order[i] : i \in J}) \in Nat /\ Cardinality(J) \in Nat
  BY <1>3, <1>7, FS_CardinalityType
<1>9. FirstIn(order, S, n) \subseteq S \cap T
  BY <1>4, <1>5, <1>6
<1>. QED
  BY <1>3, <1>4, <1>7, <1>8, <1>9

-----------------------------------------------------------------------------
(***************************************************************************)
(* MarketSync.                                                             *)
(***************************************************************************)
\* What a running collection may hold; an answer that a market is over is true,
\* and one that it is not is of a time before it was opened again.
AnswerOK(m, answer) ==
  /\ answer.closed \in BOOLEAN
  /\ answer.closed => life[m] # "trading"
  /\ m \in reopened => answer.closed

SyncRunOK(run) ==
  \/ /\ run \in [stage : {"asked", "missing"}, asked : SUBSET Markets]
     /\ Cardinality(run.asked) <= MaxIds
  \/ /\ run = [stage |-> "answered", asked |-> run.asked, answer |-> run.answer]
     /\ run.asked \in SUBSET Markets /\ Cardinality(run.asked) <= MaxIds
     /\ DOMAIN run.answer \subseteq run.asked
     /\ \A m \in DOMAIN run.answer :
          run.answer[m].price \in Prices /\ AnswerOK(m, run.answer[m])
  \/ /\ run = [stage |-> "fallback", answer |-> run.answer]
     /\ DOMAIN run.answer \in SUBSET Markets /\ Cardinality(DOMAIN run.answer) <= MaxIds
     /\ \A m \in DOMAIN run.answer : AnswerOK(m, run.answer[m])

\* A running resolution collection; what it found a market to settle as is true.
ResolvingOK(run) ==
  \/ run \in [stage : {"asked"}, asked : SUBSET Markets]
  \/ /\ run = [stage |-> "answered", found |-> run.found]
     /\ DOMAIN run.found \in SUBSET Markets
     /\ \A m \in DOMAIN run.found :
          run.found[m] # "none" => run.found[m] = life[m] /\ life[m] \in Settlements

\* The types of the rows, without the bound on the running collection.
SyncRowsOK ==
  /\ life \in [Markets -> {"trading", "ended"} \cup Settlements]
  /\ closed \in [Markets -> BOOLEAN] /\ quoted \in [Markets -> {NoPrice} \cup Prices]
  /\ \A m \in Markets : resolution[m] \in {"none", life[m]} \ {"trading", "ended"}
  /\ rotation \in SetToSeqs(Markets)

SyncIInv ==
  /\ SyncRowsOK
  /\ \A m \in Markets : closed[m] \/ m \in reopened => life[m] # "trading"
  /\ sync # NoTxn => SyncRunOK(sync)
  /\ resolving # NoTxn => ResolvingOK(resolving)

\* The inductive invariant says all of the type invariant.
LEMMA SyncIInvTypes == SyncIInv => SyncTypeOK
<1> SUFFICES ASSUME SyncIInv, sync # NoTxn
             PROVE  Cardinality(IF "asked" \in DOMAIN sync THEN sync.asked
                                ELSE DOMAIN sync.answer) <= MaxIds
  BY DEF SyncIInv, SyncRowsOK, SyncTypeOK
<1>1. SyncRunOK(sync)
  BY DEF SyncIInv
<1>2. CASE sync \in [stage : {"asked", "missing"}, asked : SUBSET Markets]
  BY <1>1, <1>2 DEF SyncRunOK
<1>3. CASE sync = [stage |-> "answered", asked |-> sync.asked, answer |-> sync.answer]
  BY <1>1, <1>3 DEF SyncRunOK
<1>4. CASE sync = [stage |-> "fallback", answer |-> sync.answer]
  BY <1>1, <1>4 DEF SyncRunOK
<1>. QED
  BY <1>1, <1>2, <1>3, <1>4 DEF SyncRunOK

\* A work list is of known markets, and within the budget.
LEMMA WorkListsAreBounded ==
  ASSUME SyncRowsOK, NEW asked \in WorkLists
  PROVE  asked \in SUBSET Markets /\ Cardinality(asked) <= MaxIds
<1> DEFINE open == {m \in Markets : ~closed[m]}
           held == Held \cap open
<1>1. PICK S \in SUBSET held :
        /\ Cardinality(S) = Smaller(Cardinality(held), PositionsBudget)
        /\ asked = S \cup FirstIn(rotation, open \ S, MaxIds - Cardinality(S))
  BY DEF WorkLists
<1>2. S \subseteq Markets /\ held \subseteq Markets
  BY SyncConstants
<1> DEFINE s == Cardinality(S)
           late == FirstIn(rotation, open \ S, MaxIds - s)
<1>3. IsFiniteSet(S) /\ s \in Nat /\ Cardinality(held) \in Nat
  BY <1>2, SyncConstants, FS_Subset, FS_CardinalityType
<1>4. s <= MaxIds /\ MaxIds - s \in Nat
  <2>1. PositionsBudget \in Nat /\ PositionsBudget <= MaxIds
    BY SyncConstants DEF PositionsBudget, Larger
  <2>. QED
    BY <1>1, <1>3, <2>1, SyncConstants DEF Smaller
<1>5. rotation \in Seq(Markets)
  <2>1. rotation \in [1..Cardinality(Markets) -> Markets]
    BY DEF SyncRowsOK, SetToSeqs
  <2>2. Cardinality(Markets) \in Nat
    BY SyncConstants, FS_CardinalityType
  <2>. QED
    BY <2>1, <2>2
<1>. HIDE DEF open, s
<1>6. /\ late \subseteq Markets
      /\ IsFiniteSet(late) /\ Cardinality(late) <= MaxIds - s
  BY <1>4, <1>5, FirstInIsBounded
<1>. HIDE DEF late
<1>7. Cardinality(S \cup late) = s + Cardinality(late) - Cardinality(S \cap late)
  BY <1>3, <1>6, FS_Union DEF s
<1>8. Cardinality(late) \in Nat /\ Cardinality(S \cap late) \in Nat
  BY <1>3, <1>6, FS_Subset, FS_CardinalityType
<1>9. Cardinality(S \cup late) <= MaxIds
  BY <1>3, <1>4, <1>6, <1>7, <1>8, SyncConstants
<1>. QED
  BY <1>1, <1>2, <1>6, <1>9 DEF late, s

\* Prices are no substitute for a missing one.
LEMMA PricesArePrices == Prices \subseteq 0..100 /\ NoPrice \notin Prices
<1>1. \A s \in Settlements : Payout[s] \in 0..100
  BY FeedConstants DEF Payout
<1>. QED
  BY <1>1, FeedConstants DEF Prices

\* What the exchange lists for a market is a price.
LEMMA PriceOfIsPrice == \A m \in Markets : PriceOf(m) \subseteq Prices
BY DEF PriceOf, Prices

\* A market that has stopped trading has stopped for good, and a settled one is
\* settled for good, whatever the exchange does next.
LEMMA LifeGoesOn ==
  ASSUME SyncRowsOK, Exchange
  PROVE  /\ life' \in [Markets -> {"trading", "ended"} \cup Settlements]
         /\ \A m \in Markets :
              /\ life[m] # "trading" => life'[m] # "trading"
              /\ life[m] \in Settlements => life'[m] = life[m]
         /\ UNCHANGED <<closed, quoted, reopened>>
<1>0. "trading" \notin Settlements /\ "ended" \notin Settlements
  BY FeedConstants
<1>1. PICK k \in Markets : EndTrading(k) \/ Settle(k)
  BY DEF Exchange
<1>2. CASE EndTrading(k)
  BY <1>0, <1>2 DEF EndTrading, SyncRowsOK
<1>3. CASE Settle(k)
  <2>1. PICK s \in Settlements : life[k] = "ended" /\ life' = [life EXCEPT ![k] = s]
    BY <1>3 DEF Settle
  <2>. QED
    BY <1>0, <1>3, <2>1 DEF Settle, SyncRowsOK
<1>. QED
  BY <1>1, <1>2, <1>3

\* What a running collection knows stays true while the exchange goes on.
LEMMA ExchangeKeepsIInv ==
  ASSUME SyncIInv, Exchange, UNCHANGED <<rotation, resolution, sync, resolving, faults>>
  PROVE  SyncIInv'
<1>0. SyncRowsOK
  BY DEF SyncIInv
<1>1. /\ life' \in [Markets -> {"trading", "ended"} \cup Settlements]
      /\ \A m \in Markets :
           /\ life[m] # "trading" => life'[m] # "trading"
           /\ life[m] \in Settlements => life'[m] = life[m]
      /\ UNCHANGED <<closed, quoted, reopened>>
  BY <1>0, LifeGoesOn
<1>2. SyncRowsOK'
  BY <1>0, <1>1 DEF SyncRowsOK
<1>3. \A m \in Markets : closed'[m] \/ m \in reopened' => life'[m] # "trading"
  BY <1>1 DEF SyncIInv
<1>4. sync' # NoTxn => SyncRunOK(sync)'
  BY <1>1 DEF SyncIInv, SyncRunOK, AnswerOK
<1>5. resolving' # NoTxn => ResolvingOK(resolving)'
  BY <1>1 DEF SyncIInv, ResolvingOK
<1>. QED
  BY <1>2, <1>3, <1>4, <1>5 DEF SyncIInv

\* A synchronized rotation is an order of the markets again.
LEMMA SyncedIsRotation == \A S : \A r \in Synced(S) : r \in SetToSeqs(Markets)
BY DEF Synced

-----------------------------------------------------------------------------
\* The steps that change the running collection only.
LEMMA RequestsKeepIInv ==
  ASSUME SyncIInv, UNCHANGED <<feedVars, rotation, resolution>>,
         sync' # NoTxn => SyncRunOK(sync'),
         resolving' # NoTxn => ResolvingOK(resolving')
  PROVE  SyncIInv'
<1>1. UNCHANGED <<life, closed, quoted, reopened>>
  BY DEF feedVars
<1>2. SyncRowsOK'
  BY <1>1 DEF SyncIInv, SyncRowsOK
<1>3. sync' # NoTxn => SyncRunOK(sync)'
  BY <1>1 DEF SyncRunOK, AnswerOK
<1>4. resolving' # NoTxn => ResolvingOK(resolving)'
  BY <1>1 DEF ResolvingOK
<1>. QED
  BY <1>1, <1>2, <1>3, <1>4 DEF SyncIInv

\* Choosing what to ask for.
LEMMA BeginsKeepIInv ==
  ASSUME SyncIInv, BeginSync \/ BeginResolutions
  PROVE  SyncIInv'
<1>1. CASE BeginSync
  <2>1. PICK asked \in WorkLists : sync' = [stage |-> "asked", asked |-> asked]
    BY <1>1 DEF BeginSync
  <2>2. asked \in SUBSET Markets /\ Cardinality(asked) <= MaxIds
    BY WorkListsAreBounded DEF SyncIInv
  <2>3. SyncRunOK(sync')
    BY <2>1, <2>2 DEF SyncRunOK
  <2>. QED
    BY <1>1, <2>3, RequestsKeepIInv DEF BeginSync, SyncIInv
<1>2. CASE BeginResolutions
  <2>1. EndDateOrder \in Seq(Markets)
    BY SyncConstants
  <2>2. ResolutionWork \subseteq Markets
    BY <2>1, SyncConstants, FirstInIsBounded DEF ResolutionWork
  <2>3. ResolvingOK(resolving')
    BY <1>2, <2>2 DEF BeginResolutions, ResolvingOK
  <2>. QED
    BY <1>2, <2>3, RequestsKeepIInv DEF BeginResolutions, SyncIInv
<1>. QED
  BY <1>1, <1>2

\* An answer is true when it is given.
LEMMA AnswersKeepIInv ==
  ASSUME SyncIInv, AnswerSync \/ AnswerFallback \/ AnswerResolutions
  PROVE  SyncIInv'
<1>0. \A m \in Markets : m \in reopened => life[m] # "trading"
  BY DEF SyncIInv
<1>1. CASE AnswerSync
  <2>1. SyncRunOK(sync) /\ sync.stage = "asked"
    BY <1>1 DEF AnswerSync, SyncIInv
  <2>2. sync.asked \in SUBSET Markets /\ Cardinality(sync.asked) <= MaxIds
    BY <2>1 DEF SyncRunOK
  <2>3. PICK answer \in [Listed(sync.asked) -> UNION {Answer(m) : m \in Markets}] :
          /\ \A m \in DOMAIN answer : answer[m] \in Answer(m)
          /\ sync' = [stage |-> "answered", asked |-> sync.asked, answer |-> answer]
    BY <1>1 DEF AnswerSync
  <2>4. DOMAIN answer \subseteq sync.asked
    BY <2>3 DEF Listed
  <2>5. \A m \in DOMAIN answer : answer[m].price \in Prices /\ AnswerOK(m, answer[m])
    BY <1>0, <2>2, <2>3, <2>4, PriceOfIsPrice DEF Answer, AnswerOK
  <2>6. SyncRunOK(sync')
    BY <2>2, <2>3, <2>4, <2>5 DEF SyncRunOK
  <2>. QED
    BY <1>1, <2>6, RequestsKeepIInv DEF AnswerSync, SyncIInv
<1>2. CASE AnswerFallback
  <2>1. SyncRunOK(sync) /\ sync.stage = "missing"
    BY <1>2 DEF AnswerFallback, SyncIInv
  <2>2. sync.asked \in SUBSET Markets /\ Cardinality(sync.asked) <= MaxIds
    BY <2>1 DEF SyncRunOK
  <2> DEFINE answer == [m \in sync.asked |-> [closed |-> life[m] # "trading"]]
  <2>3. sync' = [stage |-> "fallback", answer |-> answer]
    BY <1>2 DEF AnswerFallback
  <2>4. DOMAIN answer = sync.asked /\ \A m \in sync.asked : AnswerOK(m, answer[m])
    BY <1>0, <2>2 DEF AnswerOK
  <2>. HIDE DEF answer
  <2>5. SyncRunOK(sync')
    BY <2>2, <2>3, <2>4 DEF SyncRunOK
  <2>. QED
    BY <1>2, <2>5, RequestsKeepIInv DEF AnswerFallback, SyncIInv
<1>3. CASE AnswerResolutions
  <2>1. ResolvingOK(resolving) /\ resolving.stage = "asked"
    BY <1>3 DEF AnswerResolutions, SyncIInv
  <2>2. resolving.asked \in SUBSET Markets
    BY <2>1 DEF ResolvingOK
  <2>3. ResolvingOK(resolving')
    BY <1>3, <2>2 DEF AnswerResolutions, ResolvingOK, ClassifyResolution
  <2>. QED
    BY <1>3, <2>3, RequestsKeepIInv DEF AnswerResolutions, SyncIInv
<1>. QED
  BY <1>1, <1>2, <1>3

\* The rows that an answer is written to: a market is opened again at most once,
\* and closed only when it is over.
LEMMA StoreKeepsRows ==
  ASSUME SyncIInv, NEW answer, DOMAIN answer \in SUBSET Markets,
         \A m \in DOMAIN answer : AnswerOK(m, answer[m]),
         Store(answer), UNCHANGED life
  PROVE  /\ closed' \in [Markets -> BOOLEAN] /\ rotation' \in SetToSeqs(Markets)
         /\ \A m \in Markets : closed'[m] => life[m] # "trading"
         /\ \A m \in Markets : m \in reopened' => life[m] # "trading"
         /\ Reopened \cap reopened = {}
         /\ reopened' = reopened \cup Reopened
<1>0. /\ closed \in [Markets -> BOOLEAN]
      /\ \A m \in Markets : closed[m] \/ m \in reopened => life[m] # "trading"
  BY DEF SyncIInv, SyncRowsOK
<1>1. /\ closed' = [m \in Markets |-> IF m \in DOMAIN answer THEN answer[m].closed ELSE closed[m]]
      /\ reopened' = reopened \cup Reopened
      /\ rotation' \in SetToSeqs(Markets)
  BY SyncedIsRotation DEF Store
<1>2. \A m \in DOMAIN answer :
        /\ answer[m].closed \in BOOLEAN /\ (answer[m].closed => life[m] # "trading")
        /\ m \in reopened => answer[m].closed
  BY DEF AnswerOK
<1>3. closed' \in [Markets -> BOOLEAN]
  BY <1>0, <1>1, <1>2
<1>4. \A m \in Markets : closed'[m] => life[m] # "trading"
  BY <1>0, <1>1, <1>2
<1>5. \A m \in Reopened : m \in Markets /\ closed[m] /\ m \notin reopened
  BY <1>0, <1>1, <1>2 DEF Reopened
<1>. QED
  BY <1>0, <1>1, <1>3, <1>4, <1>5

\* The answers of the bulk query are written, and what it left out is noted.
LEMMA PersistSyncKeepsIInv ==
  ASSUME SyncIInv, PersistSync
  PROVE  /\ SyncIInv' /\ Reopened \cap reopened = {}
         /\ \A m \in Markets : quoted'[m] = NoPrice => quoted[m] = NoPrice
<1> DEFINE answer == sync.answer
<1>1. /\ SyncRunOK(sync) /\ sync.stage = "answered"
      /\ Store(answer) /\ UNCHANGED <<life, resolution, resolving, faults>>
  BY DEF PersistSync, SyncIInv
<1>2. /\ sync.asked \in SUBSET Markets /\ Cardinality(sync.asked) <= MaxIds
      /\ DOMAIN answer \subseteq sync.asked
      /\ \A m \in DOMAIN answer : answer[m].price \in Prices /\ AnswerOK(m, answer[m])
  BY <1>1 DEF SyncRunOK
<1>3. DOMAIN answer \in SUBSET Markets
  BY <1>2
<1>4. /\ closed' \in [Markets -> BOOLEAN] /\ rotation' \in SetToSeqs(Markets)
      /\ \A m \in Markets : closed'[m] => life[m] # "trading"
      /\ \A m \in Markets : m \in reopened' => life[m] # "trading"
      /\ Reopened \cap reopened = {}
  <2>. HIDE DEF answer
  <2>. QED
    BY <1>1, <1>2, <1>3, StoreKeepsRows
<1>5. quoted' = [m \in Markets |-> IF m \in DOMAIN answer THEN answer[m].price ELSE quoted[m]]
  BY DEF PersistSync
<1>6. /\ quoted' \in [Markets -> {NoPrice} \cup Prices]
      /\ \A m \in Markets : quoted'[m] = NoPrice => quoted[m] = NoPrice
  <2>1. quoted \in [Markets -> {NoPrice} \cup Prices]
    BY DEF SyncIInv, SyncRowsOK
  <2>. HIDE DEF answer
  <2>. QED
    BY <1>2, <1>5, <2>1, PricesArePrices
<1>7. SyncRowsOK'
  BY <1>1, <1>4, <1>6 DEF SyncRowsOK, SyncIInv
<1>8. sync' # NoTxn => SyncRunOK(sync)'
  <2> DEFINE missing == Smallest(Missing(sync), FallbackCap)
  <2>1. sync' # NoTxn => sync' = [stage |-> "missing", asked |-> missing]
    BY DEF PersistSync
  <2>2. missing \subseteq sync.asked
    BY DEF Smallest, Missing
  <2>3. IsFiniteSet(sync.asked)
    BY <1>2, SyncConstants, FS_Subset
  <2>. HIDE DEF missing
  <2>4. Cardinality(missing) <= Cardinality(sync.asked)
    BY <2>2, <2>3, FS_Subset
  <2>5. Cardinality(missing) \in Nat /\ Cardinality(sync.asked) \in Nat
    BY <2>2, <2>3, FS_Subset, FS_CardinalityType
  <2>6. missing \in SUBSET Markets /\ Cardinality(missing) <= MaxIds
    BY <1>2, <2>2, <2>4, <2>5, SyncConstants
  <2>. QED
    BY <2>1, <2>6 DEF SyncRunOK
<1>9. resolving' # NoTxn => ResolvingOK(resolving)'
  BY <1>1 DEF SyncIInv, ResolvingOK
<1>. QED
  BY <1>1, <1>4, <1>6, <1>7, <1>8, <1>9 DEF SyncIInv

\* The answers of the CLOB are written.
LEMMA PersistFallbackKeepsIInv ==
  ASSUME SyncIInv, PersistFallback
  PROVE  SyncIInv' /\ Reopened \cap reopened = {}
<1> DEFINE answer == sync.answer
<1>1. /\ SyncRunOK(sync) /\ sync.stage = "fallback" /\ sync' = NoTxn
      /\ Store(answer) /\ UNCHANGED <<life, quoted, resolution, resolving, faults>>
  BY DEF PersistFallback, SyncIInv
<1>2. DOMAIN answer \in SUBSET Markets /\ \A m \in DOMAIN answer : AnswerOK(m, answer[m])
  BY <1>1 DEF SyncRunOK
<1>3. /\ closed' \in [Markets -> BOOLEAN] /\ rotation' \in SetToSeqs(Markets)
      /\ \A m \in Markets : closed'[m] => life[m] # "trading"
      /\ \A m \in Markets : m \in reopened' => life[m] # "trading"
      /\ Reopened \cap reopened = {}
  <2>. HIDE DEF answer
  <2>. QED
    BY <1>1, <1>2, StoreKeepsRows
<1>4. SyncRowsOK'
  BY <1>1, <1>3 DEF SyncRowsOK, SyncIInv
<1>5. resolving' # NoTxn => ResolvingOK(resolving)'
  BY <1>1 DEF SyncIInv, ResolvingOK
<1>. QED
  BY <1>1, <1>3, <1>4, <1>5 DEF SyncIInv

\* Settled markets get their rows and are closed; none is opened.
LEMMA PersistResolutionsKeepsIInv ==
  ASSUME SyncIInv, PersistResolutions
  PROVE  /\ SyncIInv' /\ closed' \in [Markets -> BOOLEAN]
         /\ \A m \in Markets : closed[m] => closed'[m]
         /\ \A m \in Markets : closed'[m] => closed[m] \/ life[m] # "trading"
<1> DEFINE found == {m \in DOMAIN resolving.found : resolving.found[m] # "none"}
<1>1. /\ ResolvingOK(resolving) /\ resolving.stage = "answered" /\ resolving' = NoTxn
      /\ UNCHANGED <<life, quoted, reopened, sync, faults>>
  BY DEF PersistResolutions, SyncIInv
<1>2. \A m \in found : /\ m \in Markets /\ resolving.found[m] = life[m]
                       /\ life[m] \in Settlements
  BY <1>1 DEF ResolvingOK
<1>3. /\ resolution' = [m \in Markets |->
                         IF m \in found THEN resolving.found[m] ELSE resolution[m]]
      /\ closed' = [m \in Markets |-> m \in found \/ closed[m]]
      /\ rotation' \in SetToSeqs(Markets)
  BY SyncedIsRotation DEF PersistResolutions
<1>4. "trading" \notin Settlements /\ "ended" \notin Settlements
  BY FeedConstants
<1>. HIDE DEF found
<1>5. closed \in [Markets -> BOOLEAN]
  BY DEF SyncIInv, SyncRowsOK
<1>6. closed' \in [Markets -> BOOLEAN]
  BY <1>3, <1>5
<1>7. \A m \in Markets : resolution'[m] \in {"none", life'[m]} \ {"trading", "ended"}
  BY <1>1, <1>2, <1>3, <1>4 DEF SyncIInv, SyncRowsOK
<1>8. SyncRowsOK'
  BY <1>1, <1>3, <1>6, <1>7 DEF SyncRowsOK, SyncIInv
<1>9. \A m \in Markets : closed'[m] => closed[m] \/ life[m] # "trading"
  BY <1>2, <1>3, <1>4
<1>10. \A m \in Markets : closed'[m] \/ m \in reopened' => life'[m] # "trading"
  BY <1>1, <1>9 DEF SyncIInv
<1>11. sync' # NoTxn => SyncRunOK(sync)'
  BY <1>1 DEF SyncIInv, SyncRunOK, AnswerOK
<1>. QED
  BY <1>1, <1>3, <1>5, <1>6, <1>8, <1>9, <1>10, <1>11 DEF SyncIInv

\* Nothing is known of any market but that it trades.
LEMMA SyncInitIInv == SyncInit => SyncIInv
<1> SUFFICES ASSUME SyncInit PROVE SyncIInv
  OBVIOUS
<1>1. SyncRowsOK
  BY DEF SyncInit, FeedInit, SyncRowsOK
<1>2. \A m \in Markets : ~closed[m] /\ m \notin reopened
  BY DEF SyncInit, FeedInit
<1>. QED
  BY <1>1, <1>2 DEF SyncInit, SyncIInv

\* Every step of the collectors and of the exchange keeps it.
LEMMA SyncStepKeepsIInv == SyncIInv /\ [SyncNext]_syncVars => SyncIInv'
<1> SUFFICES ASSUME SyncIInv, [SyncNext]_syncVars PROVE SyncIInv'
  OBVIOUS
<1>1. CASE Exchange /\ UNCHANGED <<rotation, resolution, sync, resolving, faults>>
  BY <1>1, ExchangeKeepsIInv
<1>2. CASE Sync
  BY <1>2, BeginsKeepIInv, AnswersKeepIInv, PersistSyncKeepsIInv, PersistFallbackKeepsIInv
  DEF Sync
<1>3. CASE Resolutions
  BY <1>3, BeginsKeepIInv, AnswersKeepIInv, PersistResolutionsKeepsIInv DEF Resolutions
<1>4. CASE FailCollection
  <2>1. UNCHANGED <<feedVars, rotation, resolution>>
    BY <1>4 DEF FailCollection
  <2>2. sync' # NoTxn => SyncRunOK(sync')
    BY <1>4 DEF FailCollection, SyncIInv
  <2>3. resolving' # NoTxn => ResolvingOK(resolving')
    BY <1>4 DEF FailCollection, SyncIInv
  <2>. QED
    BY <2>1, <2>2, <2>3, RequestsKeepIInv
<1>5. CASE UNCHANGED syncVars
  <2>1. UNCHANGED <<feedVars, rotation, resolution, sync, resolving>>
    BY <1>5 DEF syncVars
  <2>. QED
    BY <2>1, RequestsKeepIInv DEF SyncIInv
<1>. QED
  BY <1>1, <1>2, <1>3, <1>4, <1>5 DEF SyncNext

\* The inductive invariant of the two collectors.
THEOREM SyncInvariance == SyncSpec => []SyncIInv
BY SyncInitIInv, SyncStepKeepsIInv, PTL DEF SyncSpec

\* Rows and running collections have their types: a resolution row always says
\* how its market settled, and no collection asks for more than its budget,
\* whatever is held and however large the backlog is.
THEOREM SyncTypeCorrect == SyncSpec => []SyncTypeOK
BY SyncInvariance, SyncIInvTypes, PTL

-----------------------------------------------------------------------------
\* A commit of a collector is one that MarketFeed allows.
LEMMA CommitIsCollect ==
  ASSUME closed' \in [Markets -> BOOLEAN], quoted' \in [Markets -> {NoPrice} \cup Prices],
         \A m \in Markets : closed'[m] => closed[m] \/ life[m] # "trading",
         \A m \in Markets : quoted'[m] = NoPrice => quoted[m] = NoPrice,
         Reopened \cap reopened = {}, reopened' = reopened \cup Reopened, UNCHANGED life
  PROVE  Feed!FeedNext
<1>1. Feed!Collect
  BY DEF Feed!Collect, Feed!Reopened, Reopened, Feed!Prices, Feed!Payout, Prices, Payout
<1>. QED
  BY <1>1 DEF Feed!FeedNext

\* Each step of the two collectors is a step of MarketFeed, or none.
LEMMA SyncStepIsFeedStep ==
  SyncIInv /\ SyncIInv' /\ [SyncNext]_syncVars => [Feed!FeedNext]_(Feed!feedVars)
<1> SUFFICES ASSUME SyncIInv, SyncIInv', [SyncNext]_syncVars
             PROVE  Feed!FeedNext \/ UNCHANGED feedVars
  BY DEF feedVars, Feed!feedVars
<1>0. /\ quoted' \in [Markets -> {NoPrice} \cup Prices]
      /\ closed' \in [Markets -> BOOLEAN]
      /\ \A m \in Markets : closed'[m] => life'[m] # "trading"
  BY DEF SyncIInv, SyncRowsOK
<1>1. CASE Exchange
  BY <1>1 DEF Exchange, EndTrading, Settle, Feed!FeedNext, Feed!Exchange, Feed!EndTrading,
              Feed!Settle
<1>2. CASE PersistSync
  BY <1>0, <1>2, PersistSyncKeepsIInv, CommitIsCollect DEF PersistSync, Store
<1>3. CASE PersistFallback
  BY <1>0, <1>3, PersistFallbackKeepsIInv, CommitIsCollect DEF PersistFallback, Store
<1>4. CASE PersistResolutions
  <2>1. Reopened = {}
    BY <1>4, PersistResolutionsKeepsIInv DEF Reopened
  <2>. QED
    BY <1>0, <1>4, <2>1, CommitIsCollect DEF PersistResolutions
<1>5. CASE UNCHANGED feedVars
  BY <1>5
<1>. QED
  BY <1>1, <1>2, <1>3, <1>4, <1>5
  DEF SyncNext, Sync, Resolutions, BeginSync, AnswerSync, AnswerFallback, BeginResolutions,
      AnswerResolutions, FailCollection, syncVars

\* What the portfolios rely on: however the runs of the two collectors overlap,
\* fail and overwrite each other's rows, no market is closed before it stops
\* trading, and none is opened again twice.
THEOREM KeepsFeed == SyncSpec => Feed!FeedSafety
<1>1. SyncInit => Feed!FeedInit
  BY DEF SyncInit, FeedInit, Feed!FeedInit
<1>. QED
  BY <1>1, SyncInvariance, SyncStepIsFeedStep, PTL DEF SyncSpec, Feed!FeedSafety
-----------------------------------------------------------------------------
(***************************************************************************)
(* PositionSweep: the members of a sequence that are in a set.             *)
(***************************************************************************)
\* The members of S among the first i of s, from those among fewer.
OnlyStep(only, s, S, i) ==
  CASE i = 0 -> <<>>
    [] i > 0 /\ s[i] \in S -> Append(only[i - 1], s[i])
    [] OTHER -> only[i - 1]

IsOnly(only, s, S, n) == only = [i \in 0..n |-> OnlyStep(only, s, S, i)]

\* There is such a selection, of any length.
LEMMA OnlyExists == \A s, S : \A n \in Nat : \E only : IsOnly(only, s, S, n)
<1> SUFFICES ASSUME NEW s, NEW S PROVE \A n \in Nat : \E only : IsOnly(only, s, S, n)
  OBVIOUS
<1> DEFINE Good == {n \in Nat : \E only : IsOnly(only, s, S, n)}
<1>1. 0 \in Good
  <2> DEFINE f == [i \in 0..0 |-> <<>>]
  <2>1. f = [i \in 0..0 |-> OnlyStep(f, s, S, i)]
    BY DEF OnlyStep
  <2>. QED
    BY <2>1 DEF IsOnly
<1>2. ASSUME NEW n \in Good PROVE n + 1 \in Good
  <2>1. PICK f : IsOnly(f, s, S, n)
    OBVIOUS
  <2>2. f = [i \in 0..n |-> OnlyStep(f, s, S, i)]
    BY <2>1 DEF IsOnly
  <2>3. \A i \in 0..n : f[i] = OnlyStep(f, s, S, i)
    BY <2>2
  <2> DEFINE g == [i \in 0..(n + 1) |-> OnlyStep(f, s, S, i)]
  <2>4. \A i \in 0..n : g[i] = f[i]
    BY <2>3
  <2>5. \A i \in 0..(n + 1) : OnlyStep(g, s, S, i) = OnlyStep(f, s, S, i)
    <3>. HIDE DEF g
    <3> SUFFICES ASSUME NEW i \in 0..(n + 1) PROVE OnlyStep(g, s, S, i) = OnlyStep(f, s, S, i)
      OBVIOUS
    <3>1. CASE i = 0
      BY <3>1 DEF OnlyStep
    <3>2. CASE i # 0
      <4>1. i - 1 \in 0..n
        BY <3>2
      <4>. QED
        BY <2>4, <4>1 DEF OnlyStep
    <3>. QED
      BY <3>1, <3>2
  <2>6. g = [i \in 0..(n + 1) |-> OnlyStep(g, s, S, i)]
    BY <2>5
  <2>. HIDE DEF g
  <2>. QED
    BY <2>6 DEF IsOnly
<1>3. Good = Nat
  <2>. HIDE DEF Good
  <2>1. Good \in SUBSET Nat
    BY DEF Good
  <2>. QED
    BY <1>1, <1>2, <2>1, NatSetInduction
<1>. QED
  BY <1>3

\* Only is the last of its partial selections.
LEMMA OnlyIsLast ==
  ASSUME NEW s, NEW S, Len(s) \in Nat
  PROVE  \E only : IsOnly(only, s, S, Len(s)) /\ Only(s, S) = only[Len(s)]
<1> DEFINE only == CHOOSE f : IsOnly(f, s, S, Len(s))
<1>1. IsOnly(only, s, S, Len(s))
  BY OnlyExists
<1>2. Only(s, S) = only[Len(s)]
  BY DEF Only, IsOnly, OnlyStep
<1>. QED
  BY <1>1, <1>2

\* The members of S among the first i of s.
Chosen(s, S, i) == {s[k] : k \in {j \in 1..i : s[j] \in S}}

\* One more item is one more in the range.
LEMMA AppendRange ==
  \A T : \A q \in Seq(T) : \A e \in T :
    Append(q, e) \in Seq(T) /\ Range(Append(q, e)) = Range(q) \cup {e}
<1> SUFFICES ASSUME NEW T, NEW q \in Seq(T), NEW e \in T
             PROVE  Append(q, e) \in Seq(T) /\ Range(Append(q, e)) = Range(q) \cup {e}
  OBVIOUS
<1>1. /\ Append(q, e) \in Seq(T) /\ DOMAIN Append(q, e) = 1..(Len(q) + 1)
      /\ Append(q, e)[Len(q) + 1] = e /\ Len(q) \in Nat /\ DOMAIN q = 1..Len(q)
      /\ \A i \in 1..Len(q) : Append(q, e)[i] = q[i]
  OBVIOUS
<1>2. \A i \in 1..(Len(q) + 1) : i \in 1..Len(q) \/ i = Len(q) + 1
  BY <1>1
<1>. QED
  BY <1>1, <1>2 DEF Range

\* A partial selection holds the members of S among the items it has seen.
LEMMA OnlySoFar ==
  ASSUME NEW T, NEW s \in Seq(T), NEW S, NEW only, IsOnly(only, s, S, Len(s))
  PROVE  \A i \in 0..Len(s) : only[i] \in Seq(T) /\ Range(only[i]) = Chosen(s, S, i)
<1> DEFINE OK(i) == only[i] \in Seq(T) /\ Range(only[i]) = Chosen(s, S, i)
           Good == {i \in Nat : i <= Len(s) => OK(i)}
<1>0. /\ Len(s) \in Nat /\ \A i \in 1..Len(s) : s[i] \in T
      /\ \A i \in 0..Len(s) : only[i] = OnlyStep(only, s, S, i)
  BY DEF IsOnly
<1>1. 0 \in Good
  <2>1. only[0] = <<>>
    BY <1>0 DEF OnlyStep
  <2>2. Chosen(s, S, 0) = {}
    BY DEF Chosen
  <2>3. <<>> \in Seq(T) /\ Range(<<>>) = {}
    BY DEF Range
  <2>4. OK(0)
    BY <2>1, <2>2, <2>3
  <2>. QED
    BY <2>4
<1>2. ASSUME NEW n \in Good PROVE n + 1 \in Good
  <2> SUFFICES ASSUME n + 1 <= Len(s) PROVE OK(n + 1)
    OBVIOUS
  <2>1. n \in Nat /\ n + 1 \in 0..Len(s) /\ n + 1 \in 1..Len(s) /\ n + 1 # 0 /\ (n + 1) - 1 = n
    BY <1>0
  <2>2. OK(n)
    BY <1>0, <2>1
  <2>3. only[n + 1] = OnlyStep(only, s, S, n + 1)
    BY <1>0, <2>1
  <2>4. CASE s[n + 1] \in S
    <3>1. only[n + 1] = Append(only[n], s[n + 1])
      BY <2>1, <2>3, <2>4 DEF OnlyStep
    <3>2. s[n + 1] \in T
      BY <1>0, <2>1
    <3>3. Chosen(s, S, n + 1) = Chosen(s, S, n) \cup {s[n + 1]}
      <4>1. {j \in 1..(n + 1) : s[j] \in S} = {j \in 1..n : s[j] \in S} \cup {n + 1}
        BY <2>1, <2>4
      <4>. QED
        BY <4>1 DEF Chosen
    <3>. HIDE DEF Good
    <3>4. \A q \in Seq(T) : \A e \in T :
            Append(q, e) \in Seq(T) /\ Range(Append(q, e)) = Range(q) \cup {e}
      BY AppendRange
    <3>. QED
      BY <2>2, <3>1, <3>2, <3>3, <3>4
  <2>5. CASE s[n + 1] \notin S
    <3>1. only[n + 1] = only[n]
      BY <2>1, <2>3, <2>5 DEF OnlyStep
    <3>2. Chosen(s, S, n + 1) = Chosen(s, S, n)
      <4>1. {j \in 1..(n + 1) : s[j] \in S} = {j \in 1..n : s[j] \in S}
        BY <2>1, <2>5
      <4>. QED
        BY <4>1 DEF Chosen
    <3>. QED
      BY <2>2, <3>1, <3>2
  <2>. QED
    BY <2>4, <2>5
<1>3. Good = Nat
  <2>. HIDE DEF Good
  <2>1. Good \in SUBSET Nat
    BY DEF Good
  <2>. QED
    BY <1>1, <1>2, <2>1, NatSetInduction
<1>. QED
  BY <1>0, <1>3

\* Only keeps exactly the members of S.
LEMMA OnlyKeepsMembers ==
  ASSUME NEW T, NEW s \in Seq(T), NEW S
  PROVE  Only(s, S) \in Seq(T) /\ Range(Only(s, S)) = Range(s) \cap S
<1>0. Len(s) \in Nat /\ Len(s) \in 0..Len(s) /\ DOMAIN s = 1..Len(s)
  OBVIOUS
<1>1. PICK only : IsOnly(only, s, S, Len(s)) /\ Only(s, S) = only[Len(s)]
  BY <1>0, OnlyIsLast
<1>2. only[Len(s)] \in Seq(T) /\ Range(only[Len(s)]) = Chosen(s, S, Len(s))
  BY <1>0, <1>1, OnlySoFar
<1>3. Chosen(s, S, Len(s)) = Range(s) \cap S
  BY <1>0 DEF Chosen, Range
<1>. QED
  BY <1>1, <1>2, <1>3

\* A sequence is empty exactly if nothing is in it; its last item is in it.
LEMMA LastIsMember ==
  \A T : \A q \in Seq(T) : /\ q = <<>> <=> Range(q) = {}
                           /\ q # <<>> => Last(q) \in Range(q)
<1> SUFFICES ASSUME NEW T, NEW q \in Seq(T)
             PROVE  /\ q = <<>> <=> Range(q) = {}
                    /\ q # <<>> => Last(q) \in Range(q)
  OBVIOUS
<1>1. Len(q) \in Nat /\ DOMAIN q = 1..Len(q) /\ (q = <<>> <=> Len(q) = 0)
  OBVIOUS
<1>2. CASE q = <<>>
  BY <1>1, <1>2 DEF Range
<1>3. CASE q # <<>>
  <2>1. Len(q) \in DOMAIN q
    BY <1>1, <1>3
  <2>. QED
    BY <1>3, <2>1 DEF Range, Last
<1>. QED
  BY <1>2, <1>3

-----------------------------------------------------------------------------
(***************************************************************************)
(* What the API lists, and what a sweep makes of it.                       *)
(***************************************************************************)
EntryType == [asset : Assets, size : Sizes]

HoldingsOK == holdings \in [Wallets -> [Assets -> {0} \cup Sizes]]

\* A wallet's listing is what it holds.
LEMMA ListingIsHoldings ==
  ASSUME HoldingsOK, NEW w \in Wallets
  PROVE  /\ Listing(w) \in Seq(EntryType)
         /\ \A e \in Range(Listing(w)) : holdings[w][e.asset] = e.size /\ e.size > 0
         /\ \A a \in Assets : holdings[w][a] > 0 =>
              \E e \in Range(Listing(w)) : e.asset = a
<1> DEFINE S == {a \in Assets : holdings[w][a] > 0}
           held == Only(AssetOrder, S)
<1>0. /\ AssetOrder \in Seq(Assets) /\ Range(AssetOrder) = Assets
      /\ \A a \in S : a \in Assets /\ holdings[w][a] \in Sizes /\ holdings[w][a] > 0
  BY SweepConstants DEF HoldingsOK, Assets
<1>1. held \in Seq(Assets) /\ Range(held) = S
  <2>. HIDE DEF S
  <2>1. held \in Seq(Assets) /\ Range(held) = Range(AssetOrder) \cap S
    BY <1>0, OnlyKeepsMembers
  <2>. QED
    BY <1>0, <2>1
<1>2. Len(held) \in Nat /\ DOMAIN held = 1..Len(held) /\ \A i \in DOMAIN held : held[i] \in S
  <2>. HIDE DEF held, S
  <2>. QED
    BY <1>1 DEF Range
<1>3. Listing(w) = [i \in DOMAIN held |-> [asset |-> held[i], size |-> holdings[w][held[i]]]]
  BY DEF Listing
<1>4. \A a \in S : \E i \in DOMAIN held : held[i] = a
  BY <1>1 DEF Range
<1>5. \A i \in DOMAIN held : [asset |-> held[i], size |-> holdings[w][held[i]]] \in EntryType
  BY <1>0, <1>2 DEF EntryType
<1>6. Range(Listing(w)) = {[asset |-> held[i], size |-> holdings[w][held[i]]] : i \in DOMAIN held}
  BY <1>3 DEF Range
<1>7. Listing(w) \in Seq(EntryType)
  <2>. HIDE DEF held
  <2>. QED
    BY <1>2, <1>3, <1>5
<1>8. \A e \in Range(Listing(w)) : holdings[w][e.asset] = e.size /\ e.size > 0
  <2> SUFFICES ASSUME NEW e \in Range(Listing(w))
               PROVE  holdings[w][e.asset] = e.size /\ e.size > 0
    OBVIOUS
  <2>1. PICK i \in DOMAIN held : e = [asset |-> held[i], size |-> holdings[w][held[i]]]
    BY <1>6
  <2>2. held[i] \in S
    BY <1>2
  <2>. HIDE DEF held
  <2>. QED
    BY <2>1, <2>2
<1>9. ASSUME NEW a \in Assets, holdings[w][a] > 0
      PROVE  \E e \in Range(Listing(w)) : e.asset = a
  <2>1. PICK i \in DOMAIN held : held[i] = a
    BY <1>4, <1>9
  <2>. HIDE DEF held
  <2>2. [asset |-> held[i], size |-> holdings[w][held[i]]] \in Range(Listing(w))
    BY <1>6
  <2>. QED
    BY <2>1, <2>2
<1>. QED
  BY <1>7, <1>8, <1>9

\* The entries of an answer for an asset.
LEMMA EntriesAreListed ==
  ASSUME NEW answer \in Seq(EntryType), NEW a
  PROVE  /\ Entries(answer, a) \in Seq(EntryType)
         /\ Range(Entries(answer, a)) = {e \in Range(answer) : e.asset = a}
         /\ Entries(answer, a) = <<>> <=> \A e \in Range(answer) : e.asset # a
         /\ Entries(answer, a) # <<>> => /\ Last(Entries(answer, a)) \in Range(answer)
                                         /\ Last(Entries(answer, a)).asset = a
<1> DEFINE S == {e \in Range(answer) : e.asset = a}
<1>1. Entries(answer, a) \in Seq(EntryType) /\ Range(Entries(answer, a)) = S
  <2>1. Entries(answer, a) = Only(answer, S)
    BY DEF Entries
  <2>2. Range(answer) \cap S = S
    OBVIOUS
  <2>. HIDE DEF S
  <2>3. Only(answer, S) \in Seq(EntryType) /\ Range(Only(answer, S)) = Range(answer) \cap S
    BY OnlyKeepsMembers
  <2>. QED
    BY <2>1, <2>2, <2>3
<1>. QED
  BY <1>1, LastIsMember

\* The range of a typed sequence is of that type.
LEMMA RangeOfTyped == \A T : \A q \in Seq(T) : Range(q) \subseteq T
BY DEF Range

RowType == {NoRow} \cup {PositionRow(s) : s \in {0} \cup Sizes}

RecordsOK ==
  /\ positions \in [Wallets -> [Assets -> RowType]]
  /\ history \in [Wallets -> [Assets -> Seq(HistoryType)]]

\* A row is missing, or has a size, and is open if that is positive.
LEMMA RowsAre ==
  ASSUME RecordsOK, NEW w \in Wallets, NEW a \in Assets
  PROVE  \/ positions[w][a] = NoRow /\ ~OpenRow(w, a)
         \/ \E s \in {0} \cup Sizes : /\ positions[w][a] = PositionRow(s)
                                      /\ OpenRow(w, a) <=> s > 0
<1>1. positions[w][a] \in RowType
  BY DEF RecordsOK
<1>2. CASE positions[w][a] = NoRow
  BY <1>2 DEF OpenRow, NoRow
<1>3. ASSUME NEW s \in {0} \cup Sizes, positions[w][a] = PositionRow(s)
      PROVE  OpenRow(w, a) <=> s > 0
  <2>1. positions[w][a].exists = TRUE /\ positions[w][a].open = (s > 0)
    BY <1>3 DEF PositionRow
  <2>. QED
    BY <2>1 DEF OpenRow
<1>. QED
  BY <1>1, <1>2, <1>3 DEF RowType

\* A listed position is an OPENED event exactly if its row is not open.
LEMMA ChangeOfType ==
  \A w, a, size : /\ ChangeOf(w, a, size) \in {"OPENED", "INCREASED", "DECREASED", "SAME"}
                  /\ ChangeOf(w, a, size) = "OPENED" <=> ~OpenRow(w, a)
BY DEF ChangeOf

\* The events of an asset: those of its entries in the answer, or a closing one.
LEMMA EventsOfAsset ==
  ASSUME NEW w \in Wallets, NEW a \in Assets, NEW answer \in Seq(EntryType)
  PROVE  /\ DiffPositions(w, a, answer) \in Seq(HistoryType)
         /\ Entries(answer, a) # <<>> =>
              /\ \A h \in Range(DiffPositions(w, a, answer)) :
                   /\ h.type # "CLOSED"
                   /\ h.type = "OPENED" /\ ~h.boot => ~OpenRow(w, a) /\ ~IsBootstrap(w)
              /\ ~OpenRow(w, a) => DiffPositions(w, a, answer) # <<>>
         /\ Entries(answer, a) = <<>> =>
              DiffPositions(w, a, answer) =
                IF OpenRow(w, a) THEN <<HistoryRow("CLOSED", 0, IsBootstrap(w))>> ELSE <<>>
<1> DEFINE entries == Entries(answer, a)
           ChangeType == [type : {"OPENED", "INCREASED", "DECREASED", "SAME"},
                          size : {0} \cup Sizes, boot : BOOLEAN]
           row(e) == HistoryRow(ChangeOf(w, a, e.size), e.size, IsBootstrap(w))
           changes == [i \in DOMAIN entries |-> row(entries[i])]
           kept == {e \in Range(changes) : e.type # "SAME"}
           d == DiffPositions(w, a, answer)
<1>1. entries \in Seq(EntryType)
  BY EntriesAreListed
<1>2. Len(entries) \in Nat /\ DOMAIN entries = 1..Len(entries)
      /\ \A i \in DOMAIN entries : entries[i] \in EntryType
  BY <1>1
<1>3. \A e \in EntryType : row(e) \in ChangeType
  BY ChangeOfType DEF EntryType, HistoryRow, IsBootstrap
<1>4. changes \in Seq(ChangeType)
  <2>. HIDE DEF entries, row, ChangeType
  <2>. QED
    BY <1>2, <1>3
<1>5. Only(changes, kept) \in Seq(ChangeType) /\ Range(Only(changes, kept)) = kept
  <2>1. Range(changes) \cap kept = kept
    OBVIOUS
  <2>. HIDE DEF changes, kept, ChangeType
  <2>2. /\ Only(changes, kept) \in Seq(ChangeType)
        /\ Range(Only(changes, kept)) = Range(changes) \cap kept
    BY <1>4, OnlyKeepsMembers
  <2>. QED
    BY <2>1, <2>2
<1>6. CASE entries # <<>>
  <2>1. d = Only(changes, kept)
    BY <1>6 DEF DiffPositions
  <2>2. \A h \in kept : \E i \in DOMAIN entries : h = row(entries[i]) /\ h.type # "SAME"
    BY DEF Range
  <2>3. \A e \in EntryType : row(e).type = ChangeOf(w, a, e.size) /\ row(e).boot = IsBootstrap(w)
    BY DEF HistoryRow
  <2>4. kept \subseteq HistoryType
    <3>. HIDE DEF entries, row
    <3>. QED
      BY <1>2, <1>3, <2>2 DEF HistoryType
  <2>5. \A h \in kept : /\ h.type # "CLOSED"
                        /\ h.type = "OPENED" /\ ~h.boot => ~OpenRow(w, a) /\ ~IsBootstrap(w)
    <3>. HIDE DEF entries, row, kept
    <3>. QED
      BY <1>2, <2>2, <2>3, ChangeOfType
  <2>6. ASSUME ~OpenRow(w, a) PROVE d # <<>>
    <3>1. 1 \in DOMAIN entries /\ changes[1] = row(entries[1])
      BY <1>2, <1>6
    <3>2. row(entries[1]).type = "OPENED"
      BY <1>2, <2>3, <2>6, <3>1, ChangeOfType
    <3>3. changes[1] \in Range(changes)
      BY <3>1 DEF Range
    <3>4. row(entries[1]) \in kept
      BY <3>1, <3>2, <3>3
    <3>. HIDE DEF kept, changes, d
    <3>. QED
      BY <1>5, <2>1, <3>4, LastIsMember
  <2>7. Only(changes, kept) \in Seq(HistoryType)
    <3>. HIDE DEF kept, changes
    <3>. QED
      BY <1>5, <2>4 DEF Range
  <2>. HIDE DEF kept, changes, d, entries
  <2>. QED
    BY <1>5, <1>6, <2>1, <2>5, <2>6, <2>7 DEF d, entries
<1>7. CASE entries = <<>>
  <2>1. d = IF OpenRow(w, a) THEN <<HistoryRow("CLOSED", 0, IsBootstrap(w))>> ELSE <<>>
    BY <1>7 DEF DiffPositions
  <2>2. HistoryRow("CLOSED", 0, IsBootstrap(w)) \in HistoryType
    BY DEF HistoryRow, HistoryType, IsBootstrap
  <2>. QED
    BY <1>7, <2>1, <2>2
<1>. QED
  BY <1>6, <1>7

\* The row of an asset after the answer is stored.
LEMMA RowAfterAnswer ==
  ASSUME RecordsOK, NEW w \in Wallets, NEW a \in Assets, NEW answer \in Seq(EntryType)
  PROVE  /\ SyncPosition(w, a, answer) \in RowType
         /\ Entries(answer, a) # <<>> =>
              \E e \in Range(answer) : /\ e.asset = a
                                       /\ SyncPosition(w, a, answer) = PositionRow(e.size)
         /\ Entries(answer, a) = <<>> =>
              ~(SyncPosition(w, a, answer).exists /\ SyncPosition(w, a, answer).open)
<1>1. CASE Entries(answer, a) # <<>>
  <2> DEFINE e == Last(Entries(answer, a))
  <2>1. e \in Range(answer) /\ e.asset = a
    BY <1>1, EntriesAreListed
  <2>2. SyncPosition(w, a, answer) = PositionRow(e.size)
    BY <1>1 DEF SyncPosition
  <2>3. e.size \in Sizes
    BY <2>1, RangeOfTyped DEF EntryType
  <2>. HIDE DEF e
  <2>. QED
    BY <1>1, <2>1, <2>2, <2>3 DEF RowType
<1>2. CASE Entries(answer, a) = <<>> /\ OpenRow(w, a)
  <2>1. SyncPosition(w, a, answer) = PositionRow(0)
    BY <1>2 DEF SyncPosition
  <2>2. PositionRow(0).open = (0 > 0)
    BY DEF PositionRow
  <2>3. (0 > 0) = FALSE
    OBVIOUS
  <2>4. PositionRow(0).open = FALSE
    BY <2>2, <2>3
  <2>. QED
    BY <1>2, <2>1, <2>4 DEF RowType
<1>3. CASE Entries(answer, a) = <<>> /\ ~OpenRow(w, a)
  <2>1. SyncPosition(w, a, answer) = positions[w][a]
    BY <1>3 DEF SyncPosition
  <2>. QED
    BY <1>3, <2>1 DEF RecordsOK, OpenRow
<1>. QED
  BY <1>1, <1>2, <1>3

\* History goes on behind what it was.
LEMMA HistoryGoesOn ==
  \A q \in Seq(HistoryType), d \in Seq(HistoryType) :
    /\ q \o d \in Seq(HistoryType)
    /\ {(q \o d)[i] : i \in (Len(q) + 1)..Len(q \o d)} = Range(d)
    /\ d = <<>> => q \o d = q
    /\ d # <<>> => q \o d # <<>> /\ Last(q \o d) = Last(d)
<1> SUFFICES ASSUME NEW q \in Seq(HistoryType), NEW d \in Seq(HistoryType)
             PROVE  /\ q \o d \in Seq(HistoryType)
                    /\ {(q \o d)[i] : i \in (Len(q) + 1)..Len(q \o d)} = Range(d)
                    /\ d = <<>> => q \o d = q
                    /\ d # <<>> => q \o d # <<>> /\ Last(q \o d) = Last(d)
  OBVIOUS
<1> DEFINE r == q \o d
<1>1. /\ r \in Seq(HistoryType) /\ Len(r) = Len(q) + Len(d)
      /\ Len(q) \in Nat /\ Len(d) \in Nat /\ DOMAIN d = 1..Len(d) /\ DOMAIN r = 1..Len(r)
  OBVIOUS
<1>2. \A i \in 1..Len(d) : r[Len(q) + i] = d[i]
  BY <1>1
<1>3. d = <<>> => r = q
  OBVIOUS
<1>. HIDE DEF r
<1>4. \A i \in (Len(q) + 1)..Len(r) : i - Len(q) \in 1..Len(d) /\ r[i] = d[i - Len(q)]
  <2> SUFFICES ASSUME NEW i \in (Len(q) + 1)..Len(r)
               PROVE  i - Len(q) \in 1..Len(d) /\ r[i] = d[i - Len(q)]
    OBVIOUS
  <2>1. i - Len(q) \in 1..Len(d) /\ Len(q) + (i - Len(q)) = i
    BY <1>1
  <2>. QED
    BY <1>2, <2>1
<1>5. \A j \in 1..Len(d) : Len(q) + j \in (Len(q) + 1)..Len(r)
  BY <1>1
<1>6. {r[i] : i \in (Len(q) + 1)..Len(r)} = Range(d)
  <2>1. ASSUME NEW i \in (Len(q) + 1)..Len(r) PROVE r[i] \in Range(d)
    BY <1>1, <1>4, <2>1 DEF Range
  <2>2. ASSUME NEW x \in Range(d) PROVE \E i \in (Len(q) + 1)..Len(r) : x = r[i]
    <3>1. PICK j \in 1..Len(d) : x = d[j]
      BY <1>1 DEF Range
    <3>. QED
      BY <1>2, <1>5, <3>1
  <2>. QED
    BY <2>1, <2>2
<1>7. ASSUME d # <<>> PROVE r # <<>> /\ Last(r) = Last(d)
  <2>1. Len(d) > 0
    BY <1>7, <1>1
  <2>. QED
    BY <1>1, <1>2, <2>1 DEF Last
<1>. QED
  BY <1>1, <1>3, <1>6, <1>7 DEF r

-----------------------------------------------------------------------------
(***************************************************************************)
(* The invariant of the sweep.                                             *)
(***************************************************************************)
\* The tables other than the history and the positions, and the ghosts.
TablesOK ==
  /\ now \in 0..MaxTime /\ leaderboard \in {"idle", "stored"} /\ started \in BOOLEAN
  /\ isTracked \in SUBSET Wallets /\ nicheTracked \in SUBSET Wallets
  /\ \A s \in snapshots : s.wallet \in Wallets
  /\ openedSince \in [Wallets -> SUBSET Assets] /\ swept \in SUBSET Wallets

\* Every wallet with rows has been swept.
RowsAreSwept == \A w \in Wallets, a \in Assets : positions[w][a].exists => w \in swept

\* The shape of a running sweep; offsets are multiples of the page size.
SweepRunOK(run) ==
  /\ run = [traded |-> run.traded, opened |-> run.opened, answer |-> run.answer,
            offset |-> run.offset]
  /\ DOMAIN run.answer \in SUBSET Wallets
  /\ run.opened \in [DOMAIN run.answer -> SUBSET Assets]
  /\ run.answer \in [DOMAIN run.answer -> Seq(EntryType)]
  /\ run.offset \in [DOMAIN run.answer -> 0..Done]
  /\ \A w \in DOMAIN run.answer :
       run.offset[w] = Done \/ \E k \in Nat : run.offset[w] = k * PageSize

\* What has been fetched of a wallet is the beginning of its listing, and in the
\* end all of it, unless the maximum offset cuts it.
FetchedOf(listing, answer, offset) ==
  IF offset = Done THEN answer = listing \/ Len(listing) > MaxOffset + PageSize
  ELSE offset <= Len(listing) /\ answer = SubSeq(listing, 1, offset)

\* This is so for the wallets that have not traded during the sweep.
SteadyFetched(run) ==
  \A w \in DOMAIN run.answer \ run.traded :
    FetchedOf(Listing(w), run.answer[w], run.offset[w])

\* A position without an open row is one the wallet does not hold and the sweep
\* has not been told of, unless it was opened since the last stored sweep began
\* or that sweep's answer was torn or cut.
NothingOldIsMissing ==
  \A w \in swept \ inexact, a \in Assets :
    a \notin openedSince[w] /\ ~OpenRow(w, a) =>
      /\ holdings[w][a] = 0
      /\ sweep # NoSweep /\ w \in DOMAIN sweep.answer =>
           \A e \in Range(sweep.answer[w]) : e.asset # a

SweepIInv ==
  /\ TablesOK /\ HoldingsOK /\ RecordsOK /\ RowsAreSwept
  /\ sweep # NoSweep => SweepRunOK(sweep) /\ SteadyFetched(sweep)
  /\ NothingOldIsMissing
  /\ OpenIffHistorySaysSo

\* The inductive invariant says all of the type invariant.
LEMMA SweepIInvTypes == SweepIInv => SweepTypeOK
<1> SUFFICES ASSUME SweepIInv PROVE SweepTypeOK
  OBVIOUS
<1>1. \A w \in Wallets, a \in Assets : Range(history[w][a]) \subseteq HistoryType
  BY RangeOfTyped DEF SweepIInv, RecordsOK
<1>2. ASSUME sweep # NoSweep
      PROVE  /\ DOMAIN sweep.answer \subseteq Wallets
             /\ sweep.offset \in [DOMAIN sweep.answer -> 0..Done]
             /\ \A w \in DOMAIN sweep.answer :
                  Range(sweep.answer[w]) \subseteq [asset : Assets, size : Sizes]
  <2>1. SweepRunOK(sweep)
    BY <1>2 DEF SweepIInv
  <2>2. \A w \in DOMAIN sweep.answer : sweep.answer[w] \in Seq(EntryType)
    BY <2>1 DEF SweepRunOK
  <2>3. \A w \in DOMAIN sweep.answer : Range(sweep.answer[w]) \subseteq EntryType
    BY <2>2, RangeOfTyped
  <2>. QED
    BY <2>1, <2>3 DEF SweepRunOK, EntryType
<1>. QED
  BY <1>1, <1>2 DEF SweepTypeOK, SweepIInv, TablesOK, HoldingsOK, RecordsOK, RowType

-----------------------------------------------------------------------------
\* One page after another is a longer beginning.
LEMMA PagesAreAdjacent ==
  ASSUME NEW T, NEW listing \in Seq(T), NEW o \in Nat, NEW z \in Nat, z <= Len(listing)
  PROVE  /\ SubSeq(listing, o + 1, z) \in Seq(T)
         /\ o <= z => /\ Len(SubSeq(listing, o + 1, z)) = z - o
                      /\ SubSeq(listing, 1, o) \o SubSeq(listing, o + 1, z)
                           = SubSeq(listing, 1, z)
<1>0. Len(listing) \in Nat
  OBVIOUS
<1>1. CASE o <= z
  <2>1. 1 \in 1..(Len(listing) + 1) /\ o \in (1 - 1)..Len(listing) /\ z \in o..Len(listing)
    BY <1>0, <1>1
  <2>2. SubSeq(listing, 1, o) \o SubSeq(listing, o + 1, z) = SubSeq(listing, 1, z)
    BY <2>1, ConcatAdjacentSubSeq
  <2>3. Len(SubSeq(listing, o + 1, z)) = z - o /\ SubSeq(listing, o + 1, z) \in Seq(T)
    BY <1>0, <1>1
  <2>. QED
    BY <2>2, <2>3
<1>2. CASE o > z
  BY <1>0, <1>2
<1>. QED
  BY <1>1, <1>2

\* A page is of the listing, whatever has been fetched before.
LEMMA PageType ==
  ASSUME HoldingsOK, NEW w \in Wallets, NEW o \in Nat
  PROVE  Page(w, o) \in Seq(EntryType)
<1> DEFINE L == Listing(w)
           z == IF o + PageSize < Len(L) THEN o + PageSize ELSE Len(L)
<1>1. L \in Seq(EntryType) /\ Len(L) \in Nat
  BY ListingIsHoldings
<1>2. z \in Nat /\ z <= Len(L)
  BY <1>1, SweepConstants
<1>3. Page(w, o) = SubSeq(L, o + 1, z)
  BY DEF Page
<1>. HIDE DEF L, z
<1>. QED
  BY <1>1, <1>2, <1>3, PagesAreAdjacent

\* The maximum offset is a multiple of the page size, and the last one.
LEMMA LastOffset ==
  ASSUME NEW k \in Nat, k * PageSize <= MaxOffset, k * PageSize + PageSize > MaxOffset
  PROVE  k * PageSize = MaxOffset
<1>1. PICK n \in Nat : MaxOffset = n * PageSize
  BY SweepConstants
<1>2. PageSize \in Nat /\ PageSize > 0
  BY SweepConstants
<1>3. \A i, j, p \in Nat : p > 0 /\ i * p <= j * p /\ i * p + p > j * p => i = j
  <2> SUFFICES ASSUME NEW i \in Nat, NEW j \in Nat, NEW p \in Nat,
                      p > 0, i * p <= j * p, i * p + p > j * p
               PROVE  i = j
    OBVIOUS
  <2>1. CASE i < j
    <3>1. j - (i + 1) \in Nat
      BY <2>1
    <3>2. (j - (i + 1)) * p \in Nat /\ (j - (i + 1)) * p = j * p - (i + 1) * p
      BY <3>1
    <3>3. (i + 1) * p = i * p + p
      OBVIOUS
    <3>. QED
      BY <3>2, <3>3
  <2>2. CASE i > j
    <3>1. i - (j + 1) \in Nat
      BY <2>2
    <3>2. (i - (j + 1)) * p \in Nat /\ (i - (j + 1)) * p = i * p - (j + 1) * p
      BY <3>1
    <3>3. (j + 1) * p = j * p + p
      OBVIOUS
    <3>. QED
      BY <3>2, <3>3
  <2>. QED
    BY <2>1, <2>2
<1>. QED
  BY <1>1, <1>2, <1>3

\* The next page of a wallet that stands still continues what was fetched; a
\* short page ends it, and so does a page at the maximum offset.
LEMMA PageContinues ==
  ASSUME HoldingsOK, NEW w \in Wallets, NEW o \in Nat, NEW answer,
         \E k \in Nat : o = k * PageSize, o <= MaxOffset, FetchedOf(Listing(w), answer, o)
  PROVE  FetchedOf(Listing(w), answer \o Page(w, o),
                   IF IsLastPage(Page(w, o)) \/ o + PageSize > MaxOffset THEN Done
                   ELSE o + PageSize)
<1> DEFINE L == Listing(w)
           z == IF o + PageSize < Len(L) THEN o + PageSize ELSE Len(L)
           page == Page(w, o)
<1>0. PageSize \in Nat /\ PageSize > 0 /\ MaxOffset \in Nat /\ Done = MaxOffset + 1
  BY SweepConstants DEF Done
<1>1. L \in Seq(EntryType) /\ Len(L) \in Nat
  BY ListingIsHoldings
<1>2. o <= Len(L) /\ answer = SubSeq(L, 1, o)
  BY <1>0 DEF FetchedOf
<1>3. z \in Nat /\ z <= Len(L) /\ o <= z
  BY <1>0, <1>1, <1>2
<1>4. page = SubSeq(L, o + 1, z)
  BY DEF Page
<1>. HIDE DEF L, z, page
<1>5. Len(page) = z - o /\ answer \o page = SubSeq(L, 1, z)
  BY <1>1, <1>2, <1>3, <1>4, PagesAreAdjacent
<1>6. SubSeq(L, 1, Len(L)) = L
  BY <1>1, SubSeqFull
<1>7. CASE o + PageSize > Len(L)
  <2>1. z = Len(L)
    BY <1>0, <1>1, <1>7 DEF z
  <2>2. IsLastPage(page)
    BY <1>0, <1>1, <1>5, <1>7, <2>1 DEF IsLastPage
  <2>. QED
    BY <1>5, <1>6, <2>1, <2>2 DEF FetchedOf, L, page
<1>8. CASE o + PageSize <= Len(L)
  <2>0. z = o + PageSize
    BY <1>0, <1>1, <1>8 DEF z
  <2>1. z = o + PageSize /\ ~IsLastPage(page)
    BY <1>0, <1>1, <1>5, <2>0 DEF IsLastPage
  <2>2. CASE o + PageSize > MaxOffset
    <3>1. o = MaxOffset
      BY <2>2, LastOffset
    <3>2. answer \o page = L \/ Len(L) > MaxOffset + PageSize
      <4>1. z = MaxOffset + PageSize /\ MaxOffset + PageSize <= Len(L)
        BY <1>8, <2>1, <3>1
      <4>2. z = Len(L) => answer \o page = L
        BY <1>5, <1>6
      <4>. QED
        BY <1>0, <1>1, <4>1, <4>2
    <3>. QED
      BY <2>2, <3>2 DEF FetchedOf, L, page
  <2>3. CASE o + PageSize <= MaxOffset
    <3>1. o + PageSize # Done
      BY <1>0, <2>3
    <3>2. ~(o + PageSize > MaxOffset)
      BY <1>0, <2>3
    <3>. QED
      BY <1>5, <1>8, <2>1, <3>1, <3>2 DEF FetchedOf, L, page
  <2>. QED
    BY <1>0, <2>2, <2>3
<1>. QED
  BY <1>0, <1>1, <1>7, <1>8

-----------------------------------------------------------------------------
\* A wallet that did not trade lists what it listed.
LEMMA ListingStays ==
  \A w : holdings'[w] = holdings[w] => Listing(w)' = Listing(w)
BY DEF Listing

\* Steps that leave the wallets and the records alone keep what is known of them,
\* also if they end the sweep.
LEMMA QuietStepKeepsIInv ==
  ASSUME SweepIInv, UNCHANGED <<market, recorded>>, TablesOK', sweep' = sweep \/ sweep' = NoSweep
  PROVE  SweepIInv'
<1>0. UNCHANGED <<holdings, openedSince, positions, history, swept, inexact>>
  BY DEF market, recorded
<1>1. HoldingsOK' /\ RecordsOK' /\ RowsAreSwept' /\ OpenIffHistorySaysSo'
  BY <1>0 DEF SweepIInv, HoldingsOK, RecordsOK, RowsAreSwept, OpenIffHistorySaysSo, OpenRow
<1>2. ASSUME sweep' # NoSweep PROVE (SweepRunOK(sweep) /\ SteadyFetched(sweep))'
  <2>1. sweep' = sweep /\ SweepRunOK(sweep) /\ SteadyFetched(sweep)
    BY <1>2 DEF SweepIInv
  <2>2. \A w : Listing(w)' = Listing(w)
    BY <1>0, ListingStays
  <2>. QED
    BY <2>1, <2>2 DEF SweepRunOK, SteadyFetched
<1>3. NothingOldIsMissing'
  BY <1>0 DEF SweepIInv, NothingOldIsMissing, OpenRow
<1>. QED
  BY <1>1, <1>2, <1>3 DEF SweepIInv

\* The steps of the clock, of the leaderboard and of promotion, and the failures.
LEMMA OthersKeepIInv ==
  ASSUME SweepIInv, Tick \/ Leaderboard \/ Promote \/ Failures
  PROVE  SweepIInv'
<1>0. TablesOK
  BY DEF SweepIInv
<1>1. CASE Tick
  <2>1. TablesOK'
    BY <1>0, <1>1, SweepConstants DEF Tick, TablesOK, market, tracking, recorded
  <2>. QED
    BY <1>1, <2>1, QuietStepKeepsIInv DEF Tick
<1>2. CASE CollectLeaderboard
  <2>1. \A s \in snapshots' : s.wallet \in Wallets
    <3>1. CASE snapshots' = snapshots
      BY <1>0, <3>1 DEF TablesOK
    <3>2. ASSUME NEW listed \in SUBSET (Wallets \X Periods), NEW pnl \in [listed -> Pnl],
                 snapshots' = snapshots \cup {Snapshot(e[1], e[2], pnl[e]) : e \in listed}
          PROVE  \A s \in snapshots' : s.wallet \in Wallets
      <4>1. \A e \in listed : e[1] \in Wallets
        OBVIOUS
      <4>2. \A u, p, q : Snapshot(u, p, q).wallet = u
        BY DEF Snapshot
      <4>. QED
        BY <1>0, <3>2, <4>1, <4>2 DEF TablesOK
    <3>. QED
      BY <1>2, <3>1, <3>2 DEF CollectLeaderboard
  <2>2. TablesOK'
    BY <1>0, <1>2, <2>1 DEF CollectLeaderboard, TablesOK, market, recorded
  <2>. QED
    BY <1>2, <2>2, QuietStepKeepsIInv DEF CollectLeaderboard
<1>3. CASE RunScoring
  <2>1. isTracked' \in SUBSET Wallets
    <3>1. \A s \in Recent : s.wallet \in Wallets
      BY <1>0 DEF TablesOK, Recent
    <3>2. DOMAIN Scores \subseteq Wallets
      BY <3>1 DEF Scores
    <3>3. \A T \in TopSets(Scores, TrackedLimit) : T \subseteq DOMAIN Scores
      BY DEF TopSets
    <3>. QED
      BY <1>0, <1>3, <3>2, <3>3 DEF RunScoring, TablesOK
  <2>2. TablesOK'
    BY <1>0, <1>3, <2>1 DEF RunScoring, TablesOK, market, recorded
  <2>. QED
    BY <1>3, <2>2, QuietStepKeepsIInv DEF RunScoring
<1>4. CASE FailScoring
  <2>1. TablesOK'
    BY <1>0, <1>4 DEF FailScoring, TablesOK, market, recorded
  <2>. QED
    BY <1>4, <2>1, QuietStepKeepsIInv DEF FailScoring
<1>5. CASE Promote
  <2>1. TablesOK'
    BY <1>0, <1>5 DEF Promote, TablesOK, market, tracking, recorded
  <2>. QED
    BY <1>5, <2>1, QuietStepKeepsIInv DEF Promote
<1>6. CASE FailSweep
  <2>1. TablesOK'
    BY <1>0, <1>6 DEF FailSweep, TablesOK, market, tracking, recorded
  <2>. QED
    BY <1>6, <2>1, QuietStepKeepsIInv DEF FailSweep
<1>7. CASE Crash
  <2>1. TablesOK'
    BY <1>0, <1>7 DEF Crash, TablesOK, market, recorded
  <2>. QED
    BY <1>7, <2>1, QuietStepKeepsIInv DEF Crash
<1>. QED
  BY <1>1, <1>2, <1>3, <1>4, <1>5, <1>6, <1>7 DEF Leaderboard, Failures

\* A trade of a followed wallet is noted, and so is what it opens.
LEMMA TradeKeepsIInv ==
  ASSUME SweepIInv, NEW w \in Wallets, NEW a \in Assets, Trade(w, a)
  PROVE  SweepIInv'
<1> DEFINE opens == IF holdings[w][a] = 0 THEN {a} ELSE {}
<1>0. /\ TablesOK /\ HoldingsOK /\ RecordsOK /\ RowsAreSwept /\ NothingOldIsMissing
      /\ sweep # NoSweep => SweepRunOK(sweep) /\ SteadyFetched(sweep)
  BY DEF SweepIInv
<1>1. PICK size \in Sizes \cup {0} : holdings' = [holdings EXCEPT ![w][a] = size]
  BY DEF Trade
<1>2. /\ openedSince' = [openedSince EXCEPT ![w] = @ \cup opens]
      /\ UNCHANGED <<now, snapshots, leaderboard, started, isTracked, nicheTracked,
                     positions, history, swept, inexact>>
  BY DEF Trade, tracking, recorded
<1>3. opens \in SUBSET Assets /\ (holdings[w][a] = 0 => a \in opens)
  OBVIOUS
<1>. HIDE DEF opens
<1>4. /\ HoldingsOK'
      /\ \A v \in Wallets : v # w => holdings'[v] = holdings[v]
      /\ \A b \in Assets : b # a => holdings'[w][b] = holdings[w][b]
  BY <1>0, <1>1 DEF HoldingsOK
<1>5. /\ TablesOK'
      /\ \A v \in Wallets : openedSince[v] \subseteq openedSince'[v]
      /\ opens \subseteq openedSince'[w]
  <2>1. openedSince \in [Wallets -> SUBSET Assets]
    BY <1>0 DEF TablesOK
  <2>2. openedSince' \in [Wallets -> SUBSET Assets]
    BY <1>2, <1>3, <2>1
  <2>3. TablesOK'
    BY <1>0, <1>2, <2>2 DEF TablesOK
  <2>. QED
    BY <1>2, <1>3, <2>1, <2>3
<1>6. RecordsOK' /\ RowsAreSwept' /\ OpenIffHistorySaysSo'
  BY <1>2 DEF SweepIInv, RecordsOK, RowsAreSwept, OpenIffHistorySaysSo, OpenRow
<1>7. ASSUME sweep # NoSweep, w \in DOMAIN sweep.answer
      PROVE  /\ SweepRunOK(sweep') /\ sweep'.answer = sweep.answer
             /\ sweep'.offset = sweep.offset /\ sweep'.traded = sweep.traded \cup {w}
  <2>1. SweepRunOK(sweep)
    BY <1>0, <1>7
  <2>2. sweep' = [sweep EXCEPT !.traded = @ \cup {w}, !.opened[w] = @ \cup opens]
    BY <1>7 DEF Trade, opens
  <2> DEFINE opened == [sweep.opened EXCEPT ![w] = @ \cup opens]
             run == [traded |-> sweep.traded \cup {w}, opened |-> opened,
                     answer |-> sweep.answer, offset |-> sweep.offset]
  <2>3. opened \in [DOMAIN sweep.answer -> SUBSET Assets]
    BY <1>3, <2>1 DEF SweepRunOK
  <2>4. sweep' = run
    <3>1. sweep = [traded |-> sweep.traded, opened |-> sweep.opened,
                   answer |-> sweep.answer, offset |-> sweep.offset]
      BY <2>1 DEF SweepRunOK
    <3>. QED
      BY <2>2, <3>1
  <2>. HIDE DEF opened
  <2>5. SweepRunOK(run)
    BY <2>1, <2>3 DEF SweepRunOK
  <2>. QED
    BY <2>4, <2>5
<1>8. CASE sweep = NoSweep \/ w \notin DOMAIN sweep.answer
  <2>1. sweep' = sweep
    BY <1>8 DEF Trade
  <2>2. ASSUME sweep' # NoSweep PROVE (SweepRunOK(sweep) /\ SteadyFetched(sweep))'
    <3>1. SweepRunOK(sweep) /\ SteadyFetched(sweep)
      BY <1>0, <2>1, <2>2
    <3>2. \A v \in DOMAIN sweep.answer : v \in Wallets /\ v # w
      BY <1>8, <2>1, <2>2, <3>1 DEF SweepRunOK
    <3>3. \A v \in DOMAIN sweep.answer : Listing(v)' = Listing(v)
      BY <1>4, <3>2, ListingStays
    <3>. QED
      BY <2>1, <3>1, <3>3 DEF SweepRunOK, SteadyFetched
  <2>3. NothingOldIsMissing'
    BY <1>0, <1>2, <1>3, <1>4, <1>5, <2>1 DEF NothingOldIsMissing, OpenRow, TablesOK
  <2>. QED
    BY <1>4, <1>5, <1>6, <2>2, <2>3 DEF SweepIInv
<1>9. CASE sweep # NoSweep /\ w \in DOMAIN sweep.answer
  <2>1. /\ SweepRunOK(sweep') /\ sweep'.answer = sweep.answer
        /\ sweep'.offset = sweep.offset /\ sweep'.traded = sweep.traded \cup {w}
    BY <1>7, <1>9
  <2>2. (SweepRunOK(sweep) /\ SteadyFetched(sweep))'
    <3>1. SweepRunOK(sweep) /\ SteadyFetched(sweep)
      BY <1>0, <1>9
    <3>2. \A v \in DOMAIN sweep.answer \ {w} : v \in Wallets /\ v # w
      BY <3>1 DEF SweepRunOK
    <3>3. \A v \in DOMAIN sweep.answer \ {w} : Listing(v)' = Listing(v)
      BY <1>4, <3>2, ListingStays
    <3>4. SweepRunOK(sweep)'
      BY <2>1 DEF SweepRunOK
    <3>. QED
      BY <2>1, <3>1, <3>3, <3>4 DEF SteadyFetched
  <2>3. NothingOldIsMissing'
    BY <1>0, <1>2, <1>3, <1>4, <1>5, <1>9, <2>1 DEF NothingOldIsMissing, OpenRow, TablesOK
  <2>. QED
    BY <1>4, <1>5, <1>6, <2>2, <2>3 DEF SweepIInv
<1>. QED
  BY <1>8, <1>9

\* A sweep begins without an answer.
LEMMA BeginSweepKeepsIInv ==
  ASSUME SweepIInv, BeginSweep
  PROVE  SweepIInv'
<1>0. UNCHANGED <<now, holdings, openedSince, snapshots, leaderboard, started, isTracked,
                  nicheTracked, positions, history, swept, inexact>>
  BY DEF BeginSweep, market, tracking, recorded
<1>1. /\ TablesOK' /\ HoldingsOK' /\ RecordsOK' /\ RowsAreSwept' /\ OpenIffHistorySaysSo'
      /\ \A w : Listing(w)' = Listing(w)
  BY <1>0, ListingStays
  DEF SweepIInv, TablesOK, HoldingsOK, RecordsOK, RowsAreSwept, OpenIffHistorySaysSo, OpenRow
<1>2. Followed \subseteq Wallets
  BY DEF SweepIInv, TablesOK, Followed
<1>3. sweep' = [traded |-> {}, opened |-> [w \in Followed |-> {}],
                answer |-> [w \in Followed |-> <<>>], offset |-> [w \in Followed |-> 0]]
  BY DEF BeginSweep
<1>4. /\ DOMAIN sweep'.answer = Followed
      /\ \A w \in Followed : sweep'.answer[w] = <<>> /\ sweep'.offset[w] = 0
  BY <1>3
<1>5. /\ PageSize \in Nat /\ MaxOffset \in Nat /\ Done = MaxOffset + 1 /\ 0 \in 0..Done
      /\ 0 # Done /\ 0 = 0 * PageSize
  BY SweepConstants DEF Done
<1>6. SweepRunOK(sweep')
  <2>1. [w \in Followed |-> {}] \in [Followed -> SUBSET Assets]
    OBVIOUS
  <2>2. [w \in Followed |-> <<>>] \in [Followed -> Seq(EntryType)]
    OBVIOUS
  <2>3. [w \in Followed |-> 0] \in [Followed -> 0..Done]
    BY <1>5
  <2>4. \A w \in DOMAIN sweep'.answer :
          sweep'.offset[w] = Done \/ \E k \in Nat : sweep'.offset[w] = k * PageSize
    BY <1>4, <1>5
  <2>. QED
    BY <1>2, <1>3, <2>1, <2>2, <2>3, <2>4 DEF SweepRunOK
<1>7. SteadyFetched(sweep)'
  <2>1. \A w \in Followed : Listing(w) \in Seq(EntryType) /\ Len(Listing(w)) \in Nat
    BY <1>2, ListingIsHoldings DEF SweepIInv
  <2>2. \A q \in Seq(EntryType) : SubSeq(q, 1, 0) = <<>>
    OBVIOUS
  <2>3. \A w \in Followed : FetchedOf(Listing(w), <<>>, 0)
    BY <1>5, <2>1, <2>2 DEF FetchedOf
  <2>. QED
    BY <1>1, <1>4, <2>3 DEF SteadyFetched
<1>8. NothingOldIsMissing'
  <2>1. \A w \in Followed : Range(sweep'.answer[w]) = {}
    BY <1>4 DEF Range
  <2>. QED
    BY <1>0, <1>4, <2>1 DEF SweepIInv, NothingOldIsMissing, OpenRow
<1>. QED
  BY <1>1, <1>6, <1>7, <1>8 DEF SweepIInv, SweepRunOK

\* What a page brings is held at that moment.
LEMMA PageIsHeld ==
  ASSUME HoldingsOK, NEW w \in Wallets, NEW o \in Nat, NEW e \in Range(Page(w, o))
  PROVE  e.asset \in Assets /\ holdings[w][e.asset] > 0
<1> DEFINE L == Listing(w)
           z == IF o + PageSize < Len(L) THEN o + PageSize ELSE Len(L)
           page == Page(w, o)
<1>1. L \in Seq(EntryType) /\ Len(L) \in Nat
      /\ \A x \in Range(L) : holdings[w][x.asset] = x.size /\ x.size > 0
  BY ListingIsHoldings
<1>2. z \in Nat /\ z <= Len(L)
  BY <1>1, SweepConstants
<1>3. page = SubSeq(L, o + 1, z) /\ e \in Range(page)
  BY DEF Page
<1>. HIDE DEF L, z, page
<1>4. e \in Range(L)
  <2>1. PICK i \in DOMAIN page : e = page[i]
    BY <1>3 DEF Range
  <2>2. page[i] = L[o + i] /\ o + i \in 1..Len(L)
    BY <1>1, <1>2, <1>3, <2>1
  <2>. QED
    BY <1>1, <2>1, <2>2 DEF Range
<1>5. e \in EntryType
  BY <1>1, <1>4, RangeOfTyped
<1>. QED
  BY <1>1, <1>4, <1>5 DEF EntryType

\* Two sequences one after the other hold what both hold.
LEMMA RangeOfBoth ==
  \A T : \A q, r \in Seq(T) : Range(q \o r) = Range(q) \cup Range(r)
<1> SUFFICES ASSUME NEW T, NEW q \in Seq(T), NEW r \in Seq(T)
             PROVE  Range(q \o r) = Range(q) \cup Range(r)
  OBVIOUS
<1>1. /\ Len(q) \in Nat /\ Len(r) \in Nat /\ DOMAIN q = 1..Len(q) /\ DOMAIN r = 1..Len(r)
      /\ DOMAIN (q \o r) = 1..(Len(q) + Len(r))
      /\ \A i \in 1..Len(q) : (q \o r)[i] = q[i] /\ i \in 1..(Len(q) + Len(r))
      /\ \A i \in 1..Len(r) : /\ (q \o r)[Len(q) + i] = r[i]
                              /\ Len(q) + i \in 1..(Len(q) + Len(r))
  OBVIOUS
<1>2. \A i \in 1..(Len(q) + Len(r)) :
        i \in 1..Len(q) \/ (i - Len(q) \in 1..Len(r) /\ Len(q) + (i - Len(q)) = i)
  BY <1>1
<1>3. Range(q \o r) \subseteq Range(q) \cup Range(r)
  BY <1>1, <1>2 DEF Range
<1>4. Range(q) \subseteq Range(q \o r) /\ Range(r) \subseteq Range(q \o r)
  BY <1>1 DEF Range
<1>. QED
  BY <1>3, <1>4

\* A page is added to what was fetched of a wallet.
LEMMA FetchPageKeepsIInv ==
  ASSUME SweepIInv, NEW w \in Wallets, FetchPage(w)
  PROVE  SweepIInv'
<1> DEFINE o == sweep.offset[w]
           page == Page(w, o)
           last == IsLastPage(page) \/ o + PageSize > MaxOffset
           next == IF last THEN Done ELSE o + PageSize
           answer == [sweep.answer EXCEPT ![w] = @ \o page]
           offset == [sweep.offset EXCEPT ![w] = next]
           run == [traded |-> sweep.traded, opened |-> sweep.opened,
                   answer |-> answer, offset |-> offset]
<1>0. UNCHANGED <<now, holdings, openedSince, snapshots, leaderboard, started, isTracked,
                  nicheTracked, positions, history, swept, inexact>>
  BY DEF FetchPage, market, tracking, recorded
<1>1. /\ TablesOK' /\ HoldingsOK' /\ RecordsOK' /\ RowsAreSwept' /\ OpenIffHistorySaysSo'
      /\ \A v : Listing(v)' = Listing(v)
  BY <1>0, ListingStays
  DEF SweepIInv, TablesOK, HoldingsOK, RecordsOK, RowsAreSwept, OpenIffHistorySaysSo, OpenRow
<1>2. /\ sweep # NoSweep /\ SweepRunOK(sweep) /\ SteadyFetched(sweep) /\ HoldingsOK
      /\ w \in DOMAIN sweep.answer /\ o <= MaxOffset
  BY DEF FetchPage, SweepIInv
<1>3. /\ PageSize \in Nat /\ PageSize > 0 /\ MaxOffset \in Nat /\ Done = MaxOffset + 1
  BY SweepConstants DEF Done
<1>4. /\ o \in Nat /\ o # Done /\ (\E k \in Nat : o = k * PageSize)
      /\ sweep.answer \in [DOMAIN sweep.answer -> Seq(EntryType)]
      /\ sweep.offset \in [DOMAIN sweep.answer -> 0..Done]
  <2>1. o \in 0..Done
    BY <1>2 DEF SweepRunOK
  <2>. QED
    BY <1>2, <1>3, <2>1 DEF SweepRunOK
<1>5. page \in Seq(EntryType)
  BY <1>2, <1>4, PageType
<1>6. sweep' = run
  <2>1. sweep = [traded |-> sweep.traded, opened |-> sweep.opened,
                 answer |-> sweep.answer, offset |-> sweep.offset]
    BY <1>2 DEF SweepRunOK
  <2>2. sweep' = [sweep EXCEPT !.answer[w] = @ \o page,
                     !.offset[w] = IF IsLastPage(page) \/ @ + PageSize > MaxOffset
                                     THEN Done ELSE @ + PageSize]
    BY DEF FetchPage
  <2>. HIDE DEF page
  <2>. QED
    BY <1>2, <1>4, <2>1, <2>2
<1>7. next = Done \/ \E k \in Nat : next = k * PageSize
  <2>1. PICK k \in Nat : o = k * PageSize
    BY <1>4
  <2>2. \A i, p \in Nat : i * p + p = (i + 1) * p
    OBVIOUS
  <2>3. o + PageSize = (k + 1) * PageSize
    BY <1>3, <2>1, <2>2
  <2>4. k + 1 \in Nat
    OBVIOUS
  <2>. HIDE DEF o, last
  <2>. QED
    BY <2>3, <2>4
<1>8. next \in 0..Done
  <2>. HIDE DEF page, o
  <2>. QED
    BY <1>3, <1>4
<1>. HIDE DEF page, next, o, last
<1>9. /\ DOMAIN answer = DOMAIN sweep.answer
      /\ answer \in [DOMAIN sweep.answer -> Seq(EntryType)]
      /\ offset \in [DOMAIN sweep.answer -> 0..Done]
      /\ answer[w] = sweep.answer[w] \o page /\ offset[w] = next
      /\ \A v \in DOMAIN sweep.answer \ {w} :
           answer[v] = sweep.answer[v] /\ offset[v] = sweep.offset[v]
  BY <1>2, <1>4, <1>5, <1>8
<1>. HIDE DEF answer, offset
<1>10. SweepRunOK(run)
  <2>1. \A v \in DOMAIN answer : offset[v] = Done \/ \E k \in Nat : offset[v] = k * PageSize
    BY <1>2, <1>7, <1>9 DEF SweepRunOK
  <2>. QED
    BY <1>2, <1>9, <2>1 DEF SweepRunOK
<1>11. SteadyFetched(run)
  <2>1. ASSUME w \notin sweep.traded PROVE FetchedOf(Listing(w), answer[w], offset[w])
    <3>1. FetchedOf(Listing(w), sweep.answer[w], o)
      BY <1>2, <2>1 DEF SteadyFetched, o
    <3>2. FetchedOf(Listing(w), sweep.answer[w] \o page, next)
      BY <1>2, <1>4, <3>1, PageContinues DEF page, next, last
    <3>. QED
      BY <1>9, <3>2
  <2>. QED
    BY <1>2, <1>9, <2>1 DEF SteadyFetched
<1>12. (SweepRunOK(sweep) /\ SteadyFetched(sweep))'
  BY <1>1, <1>6, <1>10, <1>11 DEF SweepRunOK, SteadyFetched
<1>13. NothingOldIsMissing'
  <2>1. NothingOldIsMissing /\ swept \subseteq Wallets
    BY DEF SweepIInv, TablesOK
  <2>2. \A e \in Range(page) : e.asset \in Assets /\ holdings[w][e.asset] > 0
    BY <1>2, <1>4, PageIsHeld DEF page
  <2>3. Range(sweep.answer[w] \o page) = Range(sweep.answer[w]) \cup Range(page)
    BY <1>2, <1>4, <1>5, RangeOfBoth
  <2>4. sweep'.answer = answer
    BY <1>6
  <2> SUFFICES ASSUME NEW v \in swept \ inexact, NEW a \in Assets,
                      a \notin openedSince[v], ~OpenRow(v, a)
               PROVE  /\ holdings[v][a] = 0
                      /\ v \in DOMAIN answer => \A e \in Range(answer[v]) : e.asset # a
    BY <1>0, <2>4 DEF NothingOldIsMissing, OpenRow
  <2>5. /\ holdings[v][a] = 0
        /\ v \in DOMAIN sweep.answer => \A e \in Range(sweep.answer[v]) : e.asset # a
    BY <1>2, <2>1 DEF NothingOldIsMissing
  <2>6. CASE v = w
    <3>1. answer[v] = sweep.answer[w] \o page
      BY <1>9, <2>6
    <3>2. ASSUME NEW e \in Range(sweep.answer[w]) PROVE e.asset # a
      BY <1>2, <2>5, <2>6
    <3>3. ASSUME NEW e \in Range(page) PROVE e.asset # a
      <4>1. holdings[w][e.asset] > 0 /\ holdings[w][a] = 0
        BY <2>2, <2>5, <2>6
      <4>. QED
        BY <4>1
    <3>. QED
      BY <2>3, <2>5, <3>1, <3>2, <3>3
  <2>7. CASE v # w
    BY <1>9, <2>5, <2>7
  <2>. QED
    BY <2>6, <2>7
<1>. QED
  BY <1>1, <1>12, <1>13 DEF SweepIInv

\* What is held is a positive size.
LEMMA SizesArePositive == \A s \in {0} \cup Sizes : (s = 0 <=> ~(s > 0)) /\ (s \in Sizes => s > 0)
<1> SUFFICES ASSUME NEW s \in {0} \cup Sizes
             PROVE  (s = 0 <=> ~(s > 0)) /\ (s \in Sizes => s > 0)
  OBVIOUS
<1>1. s \in Nat /\ (s \in Sizes => s # 0)
  BY SweepConstants
<1>. QED
  BY <1>1

\* The answer of a wallet that did not trade and is not cut is its listing, so
\* its rows become what it holds.
LEMMA SteadyAnswersAreExact ==
  ASSUME SweepIInv, CommitSweep, NEW w \in DOMAIN sweep.answer \ inexact', NEW a \in Assets
  PROVE  /\ holdings[w][a] > 0 =>
              SyncPosition(w, a, sweep.answer[w]) = PositionRow(holdings[w][a])
         /\ holdings[w][a] = 0 =>
              ~(/\ SyncPosition(w, a, sweep.answer[w]).exists
                /\ SyncPosition(w, a, sweep.answer[w]).open)
<1> DEFINE answer == sweep.answer[w]
<1>1. /\ SweepRunOK(sweep) /\ SteadyFetched(sweep) /\ HoldingsOK /\ RecordsOK
      /\ w \in DOMAIN sweep.answer /\ sweep.offset[w] = Done
  BY DEF CommitSweep, SweepIInv
<1>2. w \in Wallets /\ answer \in Seq(EntryType)
  BY <1>1 DEF SweepRunOK
<1>3. w \notin sweep.traded /\ ~(Len(Listing(w)) > MaxOffset + PageSize)
  BY DEF CommitSweep
<1>4. answer = Listing(w)
  BY <1>1, <1>3 DEF SteadyFetched, FetchedOf
<1>. HIDE DEF answer
<1>5. /\ \A e \in Range(answer) : holdings[w][e.asset] = e.size /\ e.size > 0
      /\ holdings[w][a] > 0 => \E e \in Range(answer) : e.asset = a
  BY <1>1, <1>2, <1>4, ListingIsHoldings
<1>6. Entries(answer, a) = <<>> <=> \A e \in Range(answer) : e.asset # a
  BY <1>2, EntriesAreListed
<1>7. ASSUME holdings[w][a] > 0
      PROVE  SyncPosition(w, a, answer) = PositionRow(holdings[w][a])
  <2>1. Entries(answer, a) # <<>>
    BY <1>5, <1>6, <1>7
  <2>2. PICK e \in Range(answer) : /\ e.asset = a
                                   /\ SyncPosition(w, a, answer) = PositionRow(e.size)
    BY <1>1, <1>2, <2>1, RowAfterAnswer
  <2>. QED
    BY <1>5, <2>2
<1>8. ASSUME holdings[w][a] = 0
      PROVE  ~(SyncPosition(w, a, answer).exists /\ SyncPosition(w, a, answer).open)
  <2>1. \A e \in Range(answer) : e.asset # a
    <3>1. ~(0 > 0)
      OBVIOUS
    <3>. QED
      BY <1>5, <1>8, <3>1
  <2>2. Entries(answer, a) = <<>>
    BY <1>6, <2>1
  <2>. QED
    BY <1>1, <1>2, <2>2, RowAfterAnswer
<1>. QED
  BY <1>7, <1>8 DEF answer

\* What a commit makes of the records of one wallet and asset.
LEMMA CommitWrites ==
  ASSUME SweepIInv, CommitSweep, NEW w \in Wallets, NEW a \in Assets
  PROVE  /\ w \in DOMAIN sweep.answer =>
              /\ sweep.answer[w] \in Seq(EntryType)
              /\ positions'[w][a] = SyncPosition(w, a, sweep.answer[w])
              /\ history'[w][a] = history[w][a] \o DiffPositions(w, a, sweep.answer[w])
              /\ openedSince'[w] = sweep.opened[w] /\ w \in swept'
         /\ w \notin DOMAIN sweep.answer =>
              /\ positions'[w] = positions[w] /\ history'[w] = history[w]
              /\ openedSince'[w] = openedSince[w]
              /\ (w \in swept' <=> w \in swept) /\ (w \in inexact' <=> w \in inexact)
<1>1. SweepRunOK(sweep)
  BY DEF CommitSweep, SweepIInv
<1>2. ASSUME w \in DOMAIN sweep.answer
      PROVE  /\ sweep.answer[w] \in Seq(EntryType)
             /\ positions'[w][a] = SyncPosition(w, a, sweep.answer[w])
             /\ history'[w][a] = history[w][a] \o DiffPositions(w, a, sweep.answer[w])
             /\ openedSince'[w] = sweep.opened[w] /\ w \in swept'
  <2>1. sweep.answer[w] \in Seq(EntryType)
    BY <1>1, <1>2 DEF SweepRunOK
  <2>2. positions'[w] = [b \in Assets |-> SyncPosition(w, b, sweep.answer[w])]
    BY <1>2 DEF CommitSweep
  <2>3. history'[w] = [b \in Assets |-> history[w][b] \o DiffPositions(w, b, sweep.answer[w])]
    BY <1>2 DEF CommitSweep
  <2>4. openedSince'[w] = sweep.opened[w] /\ w \in swept'
    BY <1>2 DEF CommitSweep
  <2>. QED
    BY <2>1, <2>2, <2>3, <2>4
<1>3. ASSUME w \notin DOMAIN sweep.answer
      PROVE  /\ positions'[w] = positions[w] /\ history'[w] = history[w]
             /\ openedSince'[w] = openedSince[w]
             /\ (w \in swept' <=> w \in swept) /\ (w \in inexact' <=> w \in inexact)
  BY <1>3 DEF CommitSweep
<1>. QED
  BY <1>2, <1>3

\* The row a commit writes is open exactly if the history it leaves does not end
\* with a closing.
LEMMA CommitKeepsLog ==
  ASSUME SweepIInv, CommitSweep, NEW w \in Wallets, NEW a \in Assets,
         w \in DOMAIN sweep.answer
  PROVE  OpenRow(w, a)' <=> history'[w][a] # <<>> /\ Last(history'[w][a]).type # "CLOSED"
<1> DEFINE answer == sweep.answer[w]
           d == DiffPositions(w, a, answer)
           h == history[w][a]
<1>1. RecordsOK /\ h \in Seq(HistoryType)
      /\ (OpenRow(w, a) <=> h # <<>> /\ Last(h).type # "CLOSED")
  BY DEF SweepIInv, RecordsOK, OpenIffHistorySaysSo
<1>2. /\ answer \in Seq(EntryType) /\ positions'[w][a] = SyncPosition(w, a, answer)
      /\ history'[w][a] = h \o d
  BY CommitWrites
<1>. HIDE DEF answer
<1>3. d \in Seq(HistoryType)
  BY <1>2, EventsOfAsset
<1>4. /\ d = <<>> => history'[w][a] = h
      /\ d # <<>> => history'[w][a] # <<>> /\ Last(history'[w][a]) = Last(d)
  BY <1>1, <1>2, <1>3, HistoryGoesOn
<1>5. CASE Entries(answer, a) # <<>>
  <2>1. PICK e \in Range(answer) : positions'[w][a] = PositionRow(e.size)
    BY <1>1, <1>2, <1>5, RowAfterAnswer
  <2>2. OpenRow(w, a)'
    <3>1. e.size \in Sizes
      BY <1>2, RangeOfTyped DEF EntryType
    <3>2. (e.size > 0) = TRUE
      BY <3>1, SizesArePositive
    <3>3. positions'[w][a].exists = TRUE /\ positions'[w][a].open = (e.size > 0)
      BY <2>1 DEF PositionRow
    <3>. QED
      BY <3>2, <3>3 DEF OpenRow
  <2>3. /\ \A x \in Range(d) : x.type # "CLOSED"
        /\ ~OpenRow(w, a) => d # <<>>
    BY <1>2, <1>5, EventsOfAsset
  <2>4. d # <<>> => Last(d).type # "CLOSED"
    BY <1>3, <2>3, LastIsMember
  <2>. HIDE DEF d
  <2>. QED
    BY <1>1, <1>4, <2>2, <2>3, <2>4
<1>6. CASE Entries(answer, a) = <<>>
  <2>1. ~OpenRow(w, a)'
    BY <1>1, <1>2, <1>6, RowAfterAnswer DEF OpenRow
  <2>2. d = IF OpenRow(w, a) THEN <<HistoryRow("CLOSED", 0, IsBootstrap(w))>> ELSE <<>>
    BY <1>2, <1>6, EventsOfAsset
  <2>3. CASE OpenRow(w, a)
    <3>1. d # <<>> /\ Last(d) = HistoryRow("CLOSED", 0, IsBootstrap(w))
      BY <2>2, <2>3 DEF Last
    <3>2. Last(d).type = "CLOSED"
      BY <3>1 DEF HistoryRow
    <3>. QED
      BY <1>4, <2>1, <3>1, <3>2
  <2>4. CASE ~OpenRow(w, a)
    <3>. HIDE DEF d
    <3>. QED
      BY <1>1, <1>4, <2>1, <2>2, <2>4
  <2>. QED
    BY <2>3, <2>4
<1>. QED
  BY <1>5, <1>6

\* A commit keeps the invariant.
LEMMA CommitSweepKeepsIInv ==
  ASSUME SweepIInv, CommitSweep
  PROVE  SweepIInv'
<1>0. /\ TablesOK /\ HoldingsOK /\ RecordsOK /\ RowsAreSwept /\ NothingOldIsMissing
      /\ OpenIffHistorySaysSo /\ SweepRunOK(sweep) /\ sweep' = NoSweep
      /\ UNCHANGED <<now, holdings, snapshots, leaderboard, started, isTracked, nicheTracked>>
  BY DEF SweepIInv, CommitSweep, tracking
<1>1. TablesOK'
  <2>1. \A w \in Wallets : IF w \in DOMAIN sweep.answer THEN sweep.opened[w] \in SUBSET Assets
                           ELSE openedSince[w] \in SUBSET Assets
    BY <1>0 DEF SweepRunOK, TablesOK
  <2>2. openedSince' \in [Wallets -> SUBSET Assets]
    BY <2>1 DEF CommitSweep
  <2>3. swept' \in SUBSET Wallets
    BY <1>0 DEF CommitSweep, TablesOK, SweepRunOK
  <2>. QED
    BY <1>0, <2>2, <2>3 DEF TablesOK
<1>2. HoldingsOK'
  BY <1>0 DEF HoldingsOK
<1>3. RecordsOK'
  <2>1. ASSUME NEW w \in Wallets, NEW a \in Assets, w \in DOMAIN sweep.answer
        PROVE  /\ SyncPosition(w, a, sweep.answer[w]) \in RowType
               /\ history[w][a] \o DiffPositions(w, a, sweep.answer[w]) \in Seq(HistoryType)
    <3>1. sweep.answer[w] \in Seq(EntryType)
      BY <2>1, CommitWrites
    <3>2. SyncPosition(w, a, sweep.answer[w]) \in RowType
      BY <1>0, <3>1, RowAfterAnswer
    <3>3. DiffPositions(w, a, sweep.answer[w]) \in Seq(HistoryType)
      BY <3>1, EventsOfAsset
    <3>4. history[w][a] \in Seq(HistoryType)
      BY <1>0 DEF RecordsOK
    <3>. QED
      BY <3>2, <3>3, <3>4, HistoryGoesOn
  <2>2. \A w \in Wallets :
          (IF w \in DOMAIN sweep.answer
             THEN [a \in Assets |-> SyncPosition(w, a, sweep.answer[w])] ELSE positions[w])
            \in [Assets -> RowType]
    BY <1>0, <2>1 DEF RecordsOK
  <2>3. positions' \in [Wallets -> [Assets -> RowType]]
    BY <2>2 DEF CommitSweep
  <2>4. \A w \in Wallets :
          (IF w \in DOMAIN sweep.answer
             THEN [a \in Assets |-> history[w][a] \o DiffPositions(w, a, sweep.answer[w])]
             ELSE history[w])
            \in [Assets -> Seq(HistoryType)]
    BY <1>0, <2>1 DEF RecordsOK
  <2>5. history' \in [Wallets -> [Assets -> Seq(HistoryType)]]
    BY <2>4 DEF CommitSweep
  <2>. QED
    BY <2>3, <2>5 DEF RecordsOK
<1>4. RowsAreSwept'
  BY <1>0, CommitWrites DEF RowsAreSwept
<1>5. OpenIffHistorySaysSo'
  <2> SUFFICES ASSUME NEW w \in Wallets, NEW a \in Assets
               PROVE  OpenRow(w, a)'
                        <=> history'[w][a] # <<>> /\ Last(history'[w][a]).type # "CLOSED"
    BY DEF OpenIffHistorySaysSo
  <2>1. CASE w \in DOMAIN sweep.answer
    BY <2>1, CommitKeepsLog
  <2>2. CASE w \notin DOMAIN sweep.answer
    <3>1. positions'[w] = positions[w] /\ history'[w] = history[w]
      BY <2>2, CommitWrites
    <3>. QED
      BY <1>0, <3>1 DEF OpenIffHistorySaysSo, OpenRow
  <2>. QED
    BY <2>1, <2>2
<1>6. NothingOldIsMissing'
  <2> SUFFICES ASSUME NEW w \in swept' \ inexact', NEW a \in Assets,
                      a \notin openedSince'[w], ~OpenRow(w, a)'
               PROVE  holdings[w][a] = 0
    BY <1>0 DEF NothingOldIsMissing
  <2>1. w \in Wallets
    BY <1>1 DEF TablesOK
  <2>2. CASE w \in DOMAIN sweep.answer
    <3>1. holdings[w][a] \in {0} \cup Sizes
      BY <1>0, <2>1 DEF HoldingsOK
    <3>2. CASE holdings[w][a] > 0
      <4>1. positions'[w][a] = PositionRow(holdings[w][a])
        BY <2>1, <2>2, <3>2, CommitWrites, SteadyAnswersAreExact
      <4>2. positions'[w][a].exists = TRUE /\ positions'[w][a].open = (holdings[w][a] > 0)
        BY <4>1 DEF PositionRow
      <4>3. OpenRow(w, a)'
        BY <3>2, <4>2 DEF OpenRow
      <4>. QED
        BY <4>3
    <3>3. CASE ~(holdings[w][a] > 0)
      BY <3>1, <3>3, SizesArePositive
    <3>. QED
      BY <3>2, <3>3
  <2>3. CASE w \notin DOMAIN sweep.answer
    <3>1. /\ positions'[w] = positions[w] /\ openedSince'[w] = openedSince[w]
          /\ w \in swept \ inexact
      BY <2>1, <2>3, CommitWrites
    <3>2. ~OpenRow(w, a) /\ a \notin openedSince[w]
      BY <3>1 DEF OpenRow
    <3>. QED
      BY <1>0, <3>1, <3>2 DEF NothingOldIsMissing
  <2>. QED
    BY <2>2, <2>3
<1>. QED
  BY <1>0, <1>1, <1>2, <1>3, <1>4, <1>5, <1>6 DEF SweepIInv

-----------------------------------------------------------------------------
(***************************************************************************)
(* The theorems about PositionSweep.                                       *)
(***************************************************************************)
\* At the start nothing is recorded and no sweep is running.
LEMMA SweepInitIInv == SweepInit => SweepIInv
<1> SUFFICES ASSUME SweepInit PROVE SweepIInv
  OBVIOUS
<1>1. TablesOK
  <2>1. now \in 0..MaxTime
    BY SweepConstants DEF SweepInit
  <2>2. openedSince \in [Wallets -> SUBSET Assets]
    BY DEF SweepInit
  <2>. QED
    BY <2>1, <2>2 DEF SweepInit, TablesOK
<1>2. HoldingsOK
  BY SweepConstants DEF SweepInit, HoldingsOK
<1>3. RecordsOK
  BY DEF SweepInit, RecordsOK, RowType
<1>4. \A w \in Wallets, a \in Assets : positions[w][a] = NoRow /\ history[w][a] = <<>>
  BY DEF SweepInit
<1>5. sweep = NoSweep /\ swept = {}
  BY DEF SweepInit
<1>6. NoRow.exists = FALSE
  BY DEF NoRow
<1>7. RowsAreSwept /\ OpenIffHistorySaysSo /\ NothingOldIsMissing
  BY <1>4, <1>5, <1>6 DEF RowsAreSwept, OpenIffHistorySaysSo, NothingOldIsMissing, OpenRow
<1>. QED
  BY <1>1, <1>2, <1>3, <1>5, <1>7 DEF SweepIInv

\* Every step keeps the invariant.
LEMMA SweepStepKeepsIInv == SweepIInv /\ [SweepNext]_sweepVars => SweepIInv'
<1> SUFFICES ASSUME SweepIInv, [SweepNext]_sweepVars PROVE SweepIInv'
  OBVIOUS
<1>1. CASE Tick \/ Leaderboard \/ Promote \/ Failures
  BY <1>1, OthersKeepIInv
<1>2. CASE \E w \in Wallets, a \in Assets : Trade(w, a)
  BY <1>2, TradeKeepsIInv
<1>3. CASE BeginSweep
  BY <1>3, BeginSweepKeepsIInv
<1>4. CASE \E w \in Wallets : FetchPage(w)
  BY <1>4, FetchPageKeepsIInv
<1>5. CASE CommitSweep
  BY <1>5, CommitSweepKeepsIInv
<1>6. CASE UNCHANGED sweepVars
  <2>1. UNCHANGED <<market, recorded>> /\ sweep' = sweep
    BY <1>6 DEF sweepVars
  <2>2. TablesOK'
    BY <1>6 DEF sweepVars, market, tracking, recorded, SweepIInv, TablesOK
  <2>. QED
    BY <2>1, <2>2, QuietStepKeepsIInv
<1>. QED
  BY <1>1, <1>2, <1>3, <1>4, <1>5, <1>6 DEF SweepNext, World, Sweep

\* PositionSweep keeps its inductive invariant: what is known of the rows, of the
\* running sweep and of the wallets that stand still.
THEOREM SweepInvariance == SweepSpec => []SweepIInv
<1>1. SweepInit => SweepIInv
  BY SweepInitIInv
<1>2. SweepIInv /\ [SweepNext]_sweepVars => SweepIInv'
  BY SweepStepKeepsIInv
<1>. QED
  BY <1>1, <1>2, PTL DEF SweepSpec

\* The tables and the running sweep have their types: a sweep asks only wallets
\* that were followed and no page beyond the maximum offset.
THEOREM SweepTypeCorrect == SweepSpec => []SweepTypeOK
BY SweepInvariance, SweepIInvTypes, PTL

\* position_history replays to positions, for every number of wallets, pages,
\* failures and restarts (_sync_wallet).
THEOREM LogReplays == SweepSpec => []OpenIffHistorySaysSo
<1>1. SweepIInv => OpenIffHistorySaysSo
  BY DEF SweepIInv
<1>. QED
  BY <1>1, SweepInvariance, PTL

\* A step that writes no history adds no events.
LEMMA NothingIsAdded ==
  ASSUME SweepIInv, history' = history, NEW w \in Wallets, NEW a \in Assets
  PROVE  Added(w, a) = {}
<1>1. Len(history[w][a]) \in Nat
  BY DEF SweepIInv, RecordsOK
<1>2. \A n \in Nat : (n + 1)..n = {}
  OBVIOUS
<1>. QED
  BY <1>1, <1>2 DEF Added

\* Only a commit writes history.
LEMMA OnlyCommitsWrite ==
  [SweepNext]_sweepVars => CommitSweep \/ history' = history
BY DEF sweepVars, SweepNext, World, Leaderboard, Sweep, Failures, Tick, Trade,
       CollectLeaderboard, RunScoring, FailScoring, BeginSweep, FetchPage, FailSweep,
       Promote, Crash, recorded

\* What a commit records as opened, outside a wallet's bootstrap, was opened
\* since its last stored sweep began, or that sweep's answer was torn or cut.
LEMMA CommitOpensAreNew ==
  ASSUME SweepIInv, CommitSweep, NEW w \in Wallets, NEW a \in Assets, NEW e \in Added(w, a),
         e.type = "OPENED", ~e.boot
  PROVE  w \in swept /\ (a \in openedSince[w] \/ w \in inexact)
<1> DEFINE answer == sweep.answer[w]
<1>1. w \in DOMAIN sweep.answer
  <2>1. ASSUME w \notin DOMAIN sweep.answer PROVE FALSE
    <3>1. history'[w] = history[w]
      BY <2>1, CommitWrites
    <3>2. Len(history[w][a]) \in Nat
      BY DEF SweepIInv, RecordsOK
    <3>3. \A n \in Nat : (n + 1)..n = {}
      OBVIOUS
    <3>. QED
      BY <3>1, <3>2, <3>3 DEF Added
  <2>. QED
    BY <2>1
<1>2. answer \in Seq(EntryType) /\ history'[w][a] = history[w][a] \o DiffPositions(w, a, answer)
  BY <1>1, CommitWrites
<1>. HIDE DEF answer
<1>3. e \in Range(DiffPositions(w, a, answer))
  <2>1. history[w][a] \in Seq(HistoryType) /\ DiffPositions(w, a, answer) \in Seq(HistoryType)
    BY <1>2, EventsOfAsset DEF SweepIInv, RecordsOK
  <2>. QED
    BY <1>2, <2>1, HistoryGoesOn DEF Added
<1>4. Entries(answer, a) # <<>>
  <2>1. ASSUME Entries(answer, a) = <<>> PROVE FALSE
    <3>1. DiffPositions(w, a, answer) =
            IF OpenRow(w, a) THEN <<HistoryRow("CLOSED", 0, IsBootstrap(w))>> ELSE <<>>
      BY <1>2, <2>1, EventsOfAsset
    <3>2. \A x : Range(<<x>>) = {x} /\ Range(<<>>) = {}
      BY DEF Range
    <3>3. e = HistoryRow("CLOSED", 0, IsBootstrap(w))
      BY <1>3, <3>1, <3>2
    <3>. QED
      BY <3>3 DEF HistoryRow
  <2>. QED
    BY <2>1
<1>5. ~OpenRow(w, a) /\ ~IsBootstrap(w)
  BY <1>2, <1>3, <1>4, EventsOfAsset
<1>6. w \in swept
  BY <1>5 DEF SweepIInv, RowsAreSwept, IsBootstrap
<1>7. \E x \in Range(answer) : x.asset = a
  BY <1>2, <1>4, EntriesAreListed
<1>8. ASSUME a \notin openedSince[w], w \notin inexact PROVE FALSE
  <2>1. sweep # NoSweep
    BY DEF CommitSweep
  <2>2. \A x \in Range(answer) : x.asset # a
    BY <1>1, <1>5, <1>6, <1>8, <2>1 DEF SweepIInv, NothingOldIsMissing, answer
  <2>. QED
    BY <1>7, <2>2
<1>. QED
  BY <1>6, <1>8

\* An OPENED event outside the bootstrap is an entry the wallet made since its
\* last stored sweep began, unless that sweep was torn or cut (diff_positions,
\* _sync_wallet; consensus takes these events for entries).
THEOREM OpensAreNew == SweepSpec => FreshOpensAreNew
<1>1. SweepIInv /\ [SweepNext]_sweepVars =>
        [ \A w \in Wallets, a \in Assets : \A e \in Added(w, a) :
            e.type = "OPENED" /\ ~e.boot =>
              w \in swept /\ (a \in openedSince[w] \/ w \in inexact) ]_sweepVars
  <2> SUFFICES ASSUME SweepIInv, [SweepNext]_sweepVars, NEW w \in Wallets, NEW a \in Assets,
                      NEW e \in Added(w, a), e.type = "OPENED", ~e.boot
               PROVE  w \in swept /\ (a \in openedSince[w] \/ w \in inexact)
    OBVIOUS
  <2>1. CASE CommitSweep
    BY <2>1, CommitOpensAreNew
  <2>2. CASE history' = history
    BY <2>2, NothingIsAdded
  <2>. QED
    BY <2>1, <2>2, OnlyCommitsWrite
<1>. QED
  BY <1>1, SweepInvariance, PTL DEF SweepSpec, FreshOpensAreNew

\* A sweep stores a wallet that did not trade during it, and is not cut, exactly
\* as it is, for every page size, maximum offset and number of pages
\* (get_positions).
THEOREM SteadyWalletsStored == SweepSpec => SteadyWalletsAreExact
<1>1. SweepIInv /\ [SweepNext]_sweepVars =>
        [ CommitSweep =>
            \A w \in DOMAIN sweep.answer \ inexact' : \A a \in Assets :
              /\ holdings[w][a] > 0 => positions'[w][a] = PositionRow(holdings[w][a])
              /\ holdings[w][a] = 0 =>
                   ~(positions'[w][a].exists /\ positions'[w][a].open) ]_sweepVars
  <2> SUFFICES ASSUME SweepIInv, CommitSweep, NEW w \in DOMAIN sweep.answer \ inexact',
                      NEW a \in Assets
               PROVE  /\ holdings[w][a] > 0 => positions'[w][a] = PositionRow(holdings[w][a])
                      /\ holdings[w][a] = 0 =>
                           ~(positions'[w][a].exists /\ positions'[w][a].open)
    OBVIOUS
  <2>1. w \in Wallets /\ w \in DOMAIN sweep.answer
    BY DEF SweepIInv, SweepRunOK, CommitSweep
  <2>2. positions'[w][a] = SyncPosition(w, a, sweep.answer[w])
    BY <2>1, CommitWrites
  <2>. QED
    BY <2>2, SteadyAnswersAreExact
<1>. QED
  BY <1>1, SweepInvariance, PTL DEF SweepSpec, SteadyWalletsAreExact
=============================================================================
