-------------------------- MODULE CoherencePortfolio --------------------------
(***************************************************************************)
(* The coherence scanner (app/coherence/scan.py, detector.py) and its      *)
(* paper portfolio.  A scan resolves the open fills, looks at the books of *)
(* the outcome sets, stores the mispriced ones, looks at the books again,  *)
(* and buys every leg of what still pays.  Each database part is a         *)
(* transaction of its own; an exception ends the scan where it is.         *)
(*                                                                         *)
(* A set's identity is its opportunity_key.  Units are those of PaperRisk; *)
(* sizes are whole shares.                                                 *)
(***************************************************************************)
EXTENDS Settlement

CONSTANTS
  SetOrder,          \* the outcome sets a scan may find mispriced, in the scan's order
  LegsOf,            \* the legs of each, a sequence of [market, side]
  DetectOnly,        \* the sets of a type outside _ACTIONABLE_TYPES
  Books,             \* the ask sides a leg may show: sequences of [price, size]
  MinEdge,           \* coherence_min_edge, in cents
  DepthPct,          \* coherence_max_book_depth_fraction
  LegFeeRate,        \* the legs' fee rate
  MaxNotional,       \* coherence_max_position_notional
  CoherenceStart     \* coherence_starting_bankroll

Sets == Range(SetOrder)

Legs == [market : Markets, side : {"yes", "no"}]

ASSUME CoherenceConstants ==
  /\ SetOrder \in Seq(Sets) /\ IsInjective(SetOrder) /\ DetectOnly \subseteq Sets
  /\ LegsOf \in [Sets -> Seq(Legs) \ {<<>>}]
  /\ Books \subseteq Seq([price : 1..99, size : Nat \ {0}])
  /\ MinEdge \in Nat /\ DepthPct \in 1..100 /\ LegFeeRate \in Nat /\ CoherenceStart \in Nat

VARIABLES
  opportunities,     \* coherence_opportunities by key
  captures,          \* the coherence_fills of each capture, oldest first
  coherenceCash,     \* the portfolio's current_bankroll
  scan               \* the running scan, or NoTxn

coherenceVars == <<opportunities, captures, coherenceCash, scan>>

NotStored == [stored |-> FALSE, live |-> FALSE, captured |-> FALSE]

\* A row of coherence_opportunities; live is resolved_at IS NULL.
OpportunityRow(live, captured) == [stored |-> TRUE, live |-> live, captured |-> captured]

\* A row of coherence_fills.
FillRow(leg, size, cost) ==
  [leg |-> leg, size |-> size, cost |-> cost,
   fee |-> TakerFee(cost \div (100 * size), size, LegFeeRate), exit |-> Unsettled]

-----------------------------------------------------------------------------
(***************************************************************************)
(* detector.py.                                                            *)
(***************************************************************************)
\* The shares the depth cap lets one leg supply.
MaxShares(book) ==
  LET budget == Pct(DepthPct, DepthBefore(book, Len(book) + 1))
  IN  SumFunction([i \in DOMAIN book |-> TakenAt(book, budget, i) \div (100 * book[i].price)])

\* What exactly `shares` of a leg cost.
WalkBookForShares(book, shares) ==
  LET before(i) == SumFunction([j \in 1..(i - 1) |-> book[j].size])
  IN  SumFunction([i \in DOMAIN book |->
        100 * book[i].price * Smaller(book[i].size, Larger(0, shares - before(i)))])

\* Mutant: every leg is bought as deep as its own book goes.
OwnFillableSize(quotes, i) == MaxShares(quotes[i])

\* The same size for every leg i: the smallest any of them can supply.
CommonFillableSize(quotes, i) == Min({MaxShares(quotes[j]) : j \in DOMAIN quotes})

\* A book for every leg, and the asks add up to less than a dollar.
Mispriced(quotes) ==
  100 - SumFunction([i \in DOMAIN quotes |-> quotes[i][1].price]) > MinEdge

\* The fills of every leg of a set at these books.
Fills(k, quotes) ==
  [i \in DOMAIN quotes |->
     LET shares == CommonFillableSize(quotes, i)
     IN  FillRow(LegsOf[k][i], shares, WalkBookForShares(quotes[i], shares))]

TotalCost(fills) == SumFunction([i \in DOMAIN fills |-> fills[i].cost + fills[i].fee])

\* Mutant: the fees are left out.
PaysBeforeFees(k, quotes) ==
  LET fills == Fills(k, quotes)
  IN  /\ \A i \in DOMAIN quotes : MaxShares(quotes[i]) > 0
      /\ 10000 * fills[1].size > SumFunction([i \in DOMAIN fills |-> fills[i].cost])

\* Every leg has a size, and the payout of the one winning share is more than
\* all legs cost.
Pays(k, quotes) ==
  /\ \A i \in DOMAIN quotes : MaxShares(quotes[i]) > 0
  /\ 10000 * Fills(k, quotes)[1].size > TotalCost(Fills(k, quotes))

Quotes(k) == [DOMAIN LegsOf[k] -> Books]

\* Whether a set that is found may pay, or may not.
Sightings ==
  [k \in Sets |-> {k \notin DetectOnly /\ Pays(k, q) :
                     q \in {r \in Quotes(k) : k \in DetectOnly \/ Mispriced(r)}}]

\* The fills that a second look at the books may find worth buying.
Captures ==
  [k \in Sets |-> {Fills(k, q) : q \in {r \in Quotes(k) :
                     Pays(k, r) /\ TotalCost(Fills(k, r)) <= MaxNotional}}]

-----------------------------------------------------------------------------
(***************************************************************************)
(* The scan.                                                               *)
(***************************************************************************)
\* Mutant: a losing fill is left alone.
LeftIfWon(fill) ==
  IF fill.exit # Unsettled \/ Outcome(fill.leg) # "WON" THEN fill
  ELSE [fill EXCEPT !.exit = 100]

\* A fill whose market has settled is redeemed.
Left(fill) ==
  IF fill.exit # Unsettled \/ ~IsSettled(fill.leg) THEN fill
  ELSE [fill EXCEPT !.exit = Redeemed(fill.leg)]

\* What fills have paid back; redemption carries no fee.
Proceeds(fills) ==
  SumFunction([i \in DOMAIN fills |->
    IF fills[i].exit = Unsettled THEN 0 ELSE 100 * fills[i].size * fills[i].exit])

AllProceeds(rows) == SumFunction([c \in DOMAIN rows |-> Proceeds(rows[c].fills)])

\* Every open fill whose market has resolved leaves; one transaction, which is
\* stored whatever becomes of the rest of the scan.
ResolveFills ==
  /\ scan = NoTxn
  /\ captures' = [c \in DOMAIN captures |->
       [captures[c] EXCEPT !.fills = [i \in DOMAIN @ |-> Left(@[i])]]]
  /\ coherenceCash' = coherenceCash + AllProceeds(captures') - AllProceeds(captures)
  /\ scan' = [stage |-> "detect"]
  /\ UNCHANGED <<opportunities, events>>

\* Candidates are markets not marked closed.
Candidate(k) == \A i \in DOMAIN LegsOf[k] : ~closed[LegsOf[k][i].market]

Detect ==
  /\ scan # NoTxn /\ scan.stage = "detect"
  /\ \E seen \in SUBSET {k \in Sets : Candidate(k)} : \E promising \in SUBSET seen :
       /\ \A k \in seen : (k \in promising) \in Sightings[k]
       /\ IF seen = {} THEN UNCHANGED events ELSE Event
       /\ scan' = [stage |-> "store", seen |-> seen, promising |-> promising]
  /\ UNCHANGED <<opportunities, captures, coherenceCash>>

\* A row that is no longer live is inserted again, and opportunity_key is unique.
Duplicate == \E k \in scan.seen : opportunities[k].stored /\ ~opportunities[k].live

\* Live rows are refreshed or resolved, the others inserted.
StoreOpportunities ==
  /\ scan # NoTxn /\ scan.stage = "store" /\ ~Duplicate
  /\ opportunities' = [k \in Sets |->
       CASE k \in scan.seen -> OpportunityRow(TRUE, opportunities[k].captured)
         [] k \notin scan.seen /\ opportunities[k].stored ->
              OpportunityRow(FALSE, opportunities[k].captured)
         [] OTHER -> NotStored]
  /\ scan' = [stage |-> "price", promising |-> scan.promising]
  /\ UNCHANGED <<captures, coherenceCash, events>>

RejectDuplicate ==
  /\ scan # NoTxn /\ scan.stage = "store" /\ Duplicate
  /\ scan' = NoTxn
  /\ UNCHANGED <<opportunities, captures, coherenceCash, events>>

\* Each promising set is priced again from fresh books, or given up.
PriceCaptures ==
  /\ scan # NoTxn /\ scan.stage = "price"
  /\ \E kept \in SUBSET scan.promising :
     \E priced \in [kept -> UNION {Captures[k] : k \in scan.promising}] :
       /\ \A k \in kept : priced[k] \in Captures[k]
       /\ scan' = [stage |-> "capture", priced |-> priced]
  /\ UNCHANGED <<opportunities, captures, coherenceCash, events>>

\* k comes before l in the scan's order.
Earlier(k, l) ==
  \E i, j \in DOMAIN SetOrder : i < j /\ SetOrder[i] = k /\ SetOrder[j] = l

\* Selections of the priced sets, each in the scan's order.
InOrder(priced) ==
  {taken \in BoundedSeq(DOMAIN priced, Len(SetOrder)) :
     \A i, j \in DOMAIN taken : i < j => Earlier(taken[i], taken[j])}

\* Mutant: the bankroll is not looked at.
AllAfforded(priced) == {taken \in InOrder(priced) : Range(taken) = DOMAIN priced}

\* The selection the running bankroll pays for: of every set, whether what is left
\* by the ones taken before it is enough.
Afforded(priced) ==
  {taken \in InOrder(priced) :
     LET spent(k) == SumFunction([j \in {i \in DOMAIN taken : Earlier(taken[i], k)} |->
                                    TotalCost(priced[taken[j]])])
     IN  \A k \in DOMAIN priced :
           k \in Range(taken) <=> TotalCost(priced[k]) + spent(k) <= coherenceCash}

\* Whether the opportunity was captured before is not looked at.
WriteCaptures ==
  /\ scan # NoTxn /\ scan.stage = "capture"
  /\ \E taken \in Afforded(scan.priced) :
       /\ captures' = captures \o
            [i \in DOMAIN taken |-> [key |-> taken[i], fills |-> scan.priced[taken[i]]]]
       /\ coherenceCash' = coherenceCash
            - SumFunction([i \in DOMAIN taken |-> TotalCost(scan.priced[taken[i]])])
       /\ opportunities' = [k \in Sets |->
            IF k \in Range(taken) THEN OpportunityRow(opportunities[k].live, TRUE)
            ELSE opportunities[k]]
  /\ scan' = NoTxn
  /\ UNCHANGED events

\* Any request that raises, or the end of the process.
FailScan ==
  /\ scan # NoTxn /\ Event /\ scan' = NoTxn
  /\ UNCHANGED <<opportunities, captures, coherenceCash>>

-----------------------------------------------------------------------------
CoherenceInit ==
  /\ FeedInit /\ events = 0
  /\ opportunities = [k \in Sets |-> NotStored]
  /\ captures = <<>> /\ coherenceCash = CoherenceStart /\ scan = NoTxn

\* One run of the job.
RunCoherenceScan ==
  ResolveFills \/ Detect \/ StoreOpportunities \/ RejectDuplicate \/ PriceCaptures \/ WriteCaptures

coherenceAll == <<feedVars, coherenceVars, events>>

CoherenceNext ==
  \/ (RunCoherenceScan \/ FailScan) /\ UNCHANGED feedVars
  \/ FeedNext /\ UNCHANGED <<coherenceVars, events>>

\* run_jobs starts the scan again after every interval, failed or not.
CoherenceSpec ==
  /\ CoherenceInit /\ [][CoherenceNext]_coherenceAll
  /\ WF_coherenceAll(RunCoherenceScan /\ UNCHANGED feedVars)

-----------------------------------------------------------------------------
(***************************************************************************)
(* Properties.                                                             *)
(***************************************************************************)
\* The bankroll is what the fills, taken together, have left of the start, and
\* it is never overdrawn, although it is debited in one transaction and credited
\* in others, and several captures are written at once (_write_captures,
\* _resolve_open_fills).
CoherenceLedger ==
  /\ coherenceCash >= 0
  /\ coherenceCash = CoherenceStart
       - SumFunction([c \in DOMAIN captures |-> TotalCost(captures[c].fills)])
       + AllProceeds(captures)

Complementary(k) ==
  /\ Len(LegsOf[k]) = 2 /\ LegsOf[k][1].market = LegsOf[k][2].market
  /\ {LegsOf[k][1].side, LegsOf[k][2].side} = {"yes", "no"}

\* The hedge of scan 1 is one (docs/COHERENCE_DESIGN.md:180-187): once both legs
\* of a market have left they have paid back more than they cost, whatever
\* books the detection and the capture saw, however stale the price was that
\* settled them, and one leg never leaves without the other.
HedgePays ==
  \A c \in DOMAIN captures : Complementary(captures[c].key) =>
    LET fills == captures[c].fills
    IN  /\ (fills[1].exit = Unsettled) <=> (fills[2].exit = Unsettled)
        /\ fills[1].exit # Unsettled => Proceeds(fills) > TotalCost(fills)

\* A fill is not kept from leaving by what the scans do after it: not by one
\* that raises, nor by a reappearing opportunity that makes every one raise.
FillsLeave ==
  \A c \in 1..(MaxEvents * Cardinality(Sets)) :
    []<>~(c \in DOMAIN captures /\ \E i \in DOMAIN captures[c].fills :
            captures[c].fills[i].exit = Unsettled /\ IsSettled(captures[c].fills[i].leg))

\* "A scan that finds the same violation again UPDATES last_seen_at instead of
\* inserting a duplicate" (app/db/models/coherence.py:31): every violation of a
\* scan that does not fail for another reason is stored.
SeenAgainIsUpdated ==
  [][ scan # NoTxn /\ scan.stage = "store" /\ scan' # scan /\ events' = events =>
        \A k \in scan.seen : opportunities'[k].live ]_coherenceAll
=============================================================================
