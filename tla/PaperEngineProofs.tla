-------------------------- MODULE PaperEngineProofs --------------------------
(***************************************************************************)
(* Theorems about the paper-trading engine, for every set of portfolios,   *)
(* signals, markets, quotes and configurations.                            *)
(*                                                                         *)
(* The inductive invariant relates the running transaction to the          *)
(* committed table: the transaction's rows extend the committed ones, keep *)
(* what those have decided, and what they add belongs to portfolios the    *)
(* cycle is done with or is working on; the signals still on the current   *)
(* portfolio's list have no row of it.                                     *)
(*                                                                         *)
(* The types, the ledger and the exposure ceilings come on top of it: they *)
(* need what the sizers, the fill and the fee compute to be numbers of the *)
(* right sign.  Two settings have to be sensible for that, and the         *)
(* theorems say so: a drift limit below the whole price (the validator     *)
(* lets 1 through) and the bankroll floor among the enabled rules.         *)
(***************************************************************************)
EXTENDS PaperEngine, PricingProofs

RowFields ==
  {"pf", "sig", "status", "price", "size", "entryFee", "entryAt", "mark", "exitPrice",
   "exitFee", "pnl", "reason", "exitAt"}

TxnFields ==
  {"at", "stop", "left", "phase", "pf", "base", "rows", "cash", "todo", "open", "dayStart",
   "realizedToday", "buckets"}

IsRow(r) ==
  /\ DOMAIN r = RowFields
  /\ r.pf \in Portfolios /\ r.sig \in Signals
  /\ r.status \in {"OPEN", "CLOSED", "MISSED"}

IsTable(rs) == rs \in Seq({rs[i] : i \in DOMAIN rs})

TableOK(rs) ==
  /\ IsTable(rs)
  /\ \A i \in DOMAIN rs : IsRow(rs[i])
  /\ DecidedOnce(rs)
  /\ WithinCap(rs)

\* The portfolios that have no new row in the transaction yet.
Untouched(t) == IF t.phase = "pick" THEN t.left ELSE t.left \ {t.pf}

IsTxn(t) ==
  /\ DOMAIN t = TxnFields
  /\ t.phase \in {"pick", "entries", "exits"}
  /\ t.phase # "pick" => t.pf \in Portfolios
  /\ DOMAIN t.todo = Signals
  /\ t.base = Len(rows)

ExtendsTable(t) ==
  /\ Len(rows) <= Len(t.rows)
  /\ \A i \in 1..Len(rows) : SameDecision(rows[i], t.rows[i])

NewRowsOfWorkedPortfolios(t) ==
  \A i \in DOMAIN t.rows :
    i > t.base => t.rows[i].pf \notin Untouched(t) /\ t.rows[i].status # "CLOSED"

ListIsUndecided(t) ==
  t.phase = "entries" =>
    \A s \in Signals, i \in DOMAIN t.rows :
      t.todo[s] > 0 /\ t.rows[i].pf = t.pf => t.rows[i].sig # s

OpenListIsOpen(t) ==
  t.phase = "exits" =>
    \A i \in t.open : i \in 1..Len(rows) /\ t.rows[i].status = "OPEN" /\ t.rows[i].pf = t.pf

CycleOK(t) ==
  /\ IsTxn(t)
  /\ TableOK(t.rows)
  /\ ExtendsTable(t)
  /\ NewRowsOfWorkedPortfolios(t)
  /\ ListIsUndecided(t)
  /\ OpenListIsOpen(t)

IInv == TableOK(rows) /\ (txn # NoTxn => CycleOK(txn))

\* The settings allow a threshold of one dollar, at which every closed market
\* counts as won; below it a payout decides.
ThresholdsBelowPayout ==
  \A pf \in Portfolios : Config[pf].resolutionThreshold \in 0..99

-----------------------------------------------------------------------------
(***************************************************************************)
(* Lemmas about tables of rows.                                            *)
(***************************************************************************)

\* A table is a sequence with an index for each of its rows.
LEMMA TableLength ==
  ASSUME NEW rs, IsTable(rs)
  PROVE  Len(rs) \in Nat /\ DOMAIN rs = 1..Len(rs)
BY LenProperties DEF IsTable

\* A function on 1..n is a table, whatever its rows are.
LEMMA FunctionIsTable ==
  ASSUME NEW f, NEW n \in Nat, NEW S, f \in [1..n -> S]
  PROVE  IsTable(f)
<1> DEFINE T == {f[i] : i \in DOMAIN f}
<1>1. f \in [1..n -> T]
  OBVIOUS
<1>. HIDE DEF T
<1>2. f \in Seq(T)
  BY <1>1, SeqDef
<1>. QED
  BY <1>2 DEF IsTable, T

\* Appending a row keeps the rows there are and their numbers.
LEMMA AppendRow ==
  ASSUME NEW rs, IsTable(rs), NEW row
  PROVE  /\ IsTable(Append(rs, row))
         /\ Len(Append(rs, row)) = Len(rs) + 1
         /\ DOMAIN Append(rs, row) = 1..(Len(rs) + 1)
         /\ \A i \in 1..Len(rs) : Append(rs, row)[i] = rs[i]
         /\ Append(rs, row)[Len(rs) + 1] = row
<1> DEFINE S == {rs[i] : i \in DOMAIN rs} \cup {row}
           new == Append(rs, row)
<1>1. rs \in Seq(S)
  BY SeqMonotonic DEF IsTable
<1>2. /\ new \in Seq(S)
      /\ Len(new) = Len(rs) + 1
      /\ \A i \in 1..Len(rs) : new[i] = rs[i]
      /\ new[Len(rs) + 1] = row
  BY <1>1, AppendProperties
<1>3. DOMAIN new = 1..(Len(rs) + 1)
  BY <1>2, LenProperties
<1>4. IsTable(new)
  BY <1>2, LenProperties, FunctionIsTable
<1>. QED
  BY <1>2, <1>3, <1>4

\* Overwriting a row keeps the others and their numbers.
LEMMA OverwriteRow ==
  ASSUME NEW rs, IsTable(rs), NEW n \in DOMAIN rs, NEW row
  PROVE  /\ IsTable([rs EXCEPT ![n] = row])
         /\ Len([rs EXCEPT ![n] = row]) = Len(rs)
         /\ DOMAIN [rs EXCEPT ![n] = row] = DOMAIN rs
         /\ \A i \in DOMAIN rs : [rs EXCEPT ![n] = row][i] = IF i = n THEN row ELSE rs[i]
<1> DEFINE S == {rs[i] : i \in DOMAIN rs} \cup {row}
           new == [rs EXCEPT ![n] = row]
<1>1. rs \in Seq(S) /\ n \in 1..Len(rs)
  BY SeqMonotonic, TableLength DEF IsTable
<1>2. new \in Seq(S) /\ Len(new) = Len(rs)
  BY <1>1, ExceptSeq
<1>3. Len(new) \in Nat /\ new \in [1..Len(new) -> S] /\ DOMAIN new = DOMAIN rs
  BY <1>2, LenProperties
<1>4. IsTable(new)
  BY <1>3, FunctionIsTable
<1>. QED
  BY <1>2, <1>3, <1>4

\* The open rows of a portfolio are finitely many.
LEMMA OpenRowsFinite ==
  ASSUME NEW rs, IsTable(rs), NEW pf
  PROVE  IsFiniteSet(OfPortfolio(rs, DOMAIN rs, pf, "OPEN"))
<1>1. IsFiniteSet(DOMAIN rs)
  BY TableLength, FS_Interval
<1>. QED
  BY <1>1, FS_Subset DEF OfPortfolio

\* The pre-check lets through what breaches none of its rules.
LEMMA PreCheckAllows ==
  ASSUME NEW st, NEW cfg, PreCheck(st, cfg) = "ALLOW", NEW i \in 1..4,
         Enabled(PreCheckRules[i], cfg)
  PROVE  ~Breaches(PreCheckRules[i], st, cfg)
<1> DEFINE breached == {j \in DOMAIN PreCheckRules :
                          Enabled(PreCheckRules[j], cfg) /\ Breaches(PreCheckRules[j], st, cfg)}
<1>1. DOMAIN PreCheckRules = 1..4
  BY DEF PreCheckRules
<1>2. \A j \in 1..4 : PreCheckRules[j] # "ALLOW"
  BY DEF PreCheckRules
<1>3. ASSUME breached # {} PROVE Least(breached) \in 1..4
  <2>1. breached \in SUBSET Nat /\ breached \subseteq 1..4
    BY <1>1
  <2>. HIDE DEF breached
  <2>. QED
    BY <1>3, <2>1, LeastOfNaturals
<1>4. breached = {}
  BY <1>2, <1>3 DEF PreCheck
<1>. QED
  BY <1>1, <1>4

\* What the pre-check lets through leaves room for one more position.
LEMMA PreCheckLeavesRoom ==
  ASSUME NEW st, NEW cfg, PreCheck(st, cfg) = "ALLOW", "MAX_OPEN_POSITIONS" \in cfg.enabled
  PROVE  ~(Cardinality(DOMAIN st.positions) >= cfg.maxOpenPositions)
<1>1. 2 \in 1..4 /\ PreCheckRules[2] = "MAX_OPEN_POSITIONS"
  BY DEF PreCheckRules
<1>2. ~Breaches("MAX_OPEN_POSITIONS", st, cfg)
  BY <1>1, PreCheckAllows DEF Enabled
<1>. QED
  BY <1>2 DEF Breaches

\* A new row of an undecided signal keeps a table well formed, when an open one
\* finds room under the cap.
LEMMA AppendKeepsTable ==
  ASSUME NEW rs, TableOK(rs), NEW row, IsRow(row),
         \A i \in DOMAIN rs : rs[i].pf = row.pf => rs[i].sig # row.sig,
         row.status = "OPEN" /\ "MAX_OPEN_POSITIONS" \in Config[row.pf].enabled =>
           ~(Cardinality(OfPortfolio(rs, DOMAIN rs, row.pf, "OPEN"))
               >= Config[row.pf].maxOpenPositions)
  PROVE  TableOK(Append(rs, row))
<1> DEFINE new == Append(rs, row)
           n == Len(rs) + 1
<1>1. /\ IsTable(new) /\ DOMAIN rs = 1..Len(rs) /\ Len(rs) \in Nat
      /\ DOMAIN new = 1..n
      /\ \A i \in DOMAIN rs : new[i] = rs[i]
      /\ new[n] = row
  BY AppendRow, TableLength DEF TableOK
<1>. HIDE DEF new
<1>2. \A i \in DOMAIN new : i \in DOMAIN rs \/ i = n
  BY <1>1
<1>3. \A i \in DOMAIN new : IsRow(new[i])
  BY <1>1, <1>2 DEF TableOK
<1>4. DecidedOnce(new)
  BY <1>1, <1>2 DEF TableOK, DecidedOnce
<1>5. WithinCap(new)
  <2> SUFFICES ASSUME NEW pf \in Portfolios, "MAX_OPEN_POSITIONS" \in Config[pf].enabled
               PROVE  Cardinality(OfPortfolio(new, DOMAIN new, pf, "OPEN"))
                        <= Config[pf].maxOpenPositions
    BY DEF WithinCap
  <2> DEFINE old == OfPortfolio(rs, DOMAIN rs, pf, "OPEN")
             now_ == OfPortfolio(new, DOMAIN new, pf, "OPEN")
  <2>1. IsFiniteSet(old) /\ Cardinality(old) \in Nat
    BY OpenRowsFinite, FS_CardinalityType DEF TableOK
  <2>2. Cardinality(old) <= Config[pf].maxOpenPositions /\ Config[pf].maxOpenPositions \in Nat
    BY ConfigAssumption DEF TableOK, WithinCap
  <2>3. CASE row.pf = pf /\ row.status = "OPEN"
    <3>1. now_ = old \cup {n} /\ n \notin old
      BY <1>1, <1>2, <2>3 DEF OfPortfolio
    <3>2. Cardinality(now_) = Cardinality(old) + 1
      BY <2>1, <3>1, FS_AddElement
    <3>3. ~(Cardinality(old) >= Config[pf].maxOpenPositions)
      BY <2>3
    <3>. QED
      BY <2>1, <2>2, <3>2, <3>3
  <2>4. CASE ~(row.pf = pf /\ row.status = "OPEN")
    <3>1. now_ = old
      BY <1>1, <1>2, <2>4 DEF OfPortfolio
    <3>. QED
      BY <2>2, <3>1
  <2>. QED
    BY <2>3, <2>4
<1>. QED
  BY <1>1, <1>3, <1>4, <1>5 DEF TableOK, new

\* Overwriting an open row by one of the same decision keeps a table well formed.
LEMMA OverwriteKeepsTable ==
  ASSUME NEW rs, TableOK(rs), NEW n \in DOMAIN rs, rs[n].status = "OPEN",
         NEW row, IsRow(row), row.pf = rs[n].pf, row.sig = rs[n].sig
  PROVE  TableOK([rs EXCEPT ![n] = row])
<1> DEFINE new == [rs EXCEPT ![n] = row]
<1>1. /\ IsTable(new) /\ DOMAIN new = DOMAIN rs
      /\ \A i \in DOMAIN rs : new[i] = IF i = n THEN row ELSE rs[i]
  BY OverwriteRow DEF TableOK
<1>. HIDE DEF new
<1>2. \A i \in DOMAIN new : IsRow(new[i])
  BY <1>1 DEF TableOK
<1>3. DecidedOnce(new)
  BY <1>1 DEF TableOK, DecidedOnce
<1>4. WithinCap(new)
  <2> SUFFICES ASSUME NEW pf \in Portfolios, "MAX_OPEN_POSITIONS" \in Config[pf].enabled
               PROVE  Cardinality(OfPortfolio(new, DOMAIN new, pf, "OPEN"))
                        <= Config[pf].maxOpenPositions
    BY DEF WithinCap
  <2> DEFINE old == OfPortfolio(rs, DOMAIN rs, pf, "OPEN")
             now_ == OfPortfolio(new, DOMAIN new, pf, "OPEN")
  <2>1. IsFiniteSet(old) /\ Cardinality(old) \in Nat
    BY OpenRowsFinite, FS_CardinalityType DEF TableOK
  <2>2. Cardinality(old) <= Config[pf].maxOpenPositions /\ Config[pf].maxOpenPositions \in Nat
    BY ConfigAssumption DEF TableOK, WithinCap
  <2>3. now_ \subseteq old
    BY <1>1 DEF OfPortfolio
  <2>4. IsFiniteSet(now_) /\ Cardinality(now_) <= Cardinality(old) /\ Cardinality(now_) \in Nat
    BY <2>1, <2>3, FS_Subset, FS_CardinalityType
  <2>. QED
    BY <2>1, <2>2, <2>4
<1>. QED
  BY <1>1, <1>2, <1>3, <1>4 DEF TableOK, new

-----------------------------------------------------------------------------
(***************************************************************************)
(* Lemmas about the engine's decisions.                                    *)
(***************************************************************************)

\* The row of a decision is the portfolio's and the signal's, missed or open;
\* it is open only when the gate let the signal through to the fill.
LEMMA DecisionRow ==
  ASSUME NEW t, NEW s \in Signals, NEW score, NEW q, NEW gate, NEW fill, t.pf \in Portfolios
  PROVE  LET row == Decision(t, s, score, q, gate, fill)
         IN  /\ IsRow(row)
             /\ row.pf = t.pf
             /\ row.sig = s
             /\ row.status \in {"MISSED", "OPEN"}
             /\ row.status = "OPEN" => gate.stage = "FILL"
<1>1. ASSUME NEW why
      PROVE  LET row == Missed(t.pf, s, why)
             IN  IsRow(row) /\ row.pf = t.pf /\ row.sig = s /\ row.status = "MISSED"
  BY DEF Missed, IsRow, RowFields
<1>2. ASSUME NEW price, NEW size, NEW fee
      PROVE  LET row == Opened(t.pf, s, price, size, fee, t.at)
             IN  IsRow(row) /\ row.pf = t.pf /\ row.sig = s /\ row.status = "OPEN"
  BY DEF Opened, Missed, IsRow, RowFields
<1>. QED
  BY <1>1, <1>2 DEF Decision

\* A signal that reaches the fill found an open position to spare.
LEMMA GateLeavesRoom ==
  ASSUME NEW t, NEW s, Gate(t, s).stage = "FILL",
         "MAX_OPEN_POSITIONS" \in Config[t.pf].enabled
  PROVE  ~(Cardinality(OfPortfolio(t.rows, DOMAIN t.rows, t.pf, "OPEN"))
             >= Config[t.pf].maxOpenPositions)
<1>1. PreCheck(RiskState(t), Config[t.pf]) = "ALLOW"
  BY DEF Gate
<1>2. DOMAIN RiskState(t).positions = OfPortfolio(t.rows, DOMAIN t.rows, t.pf, "OPEN")
  BY DEF RiskState, OpenPositions
<1>. QED
  BY <1>1, <1>2, PreCheckLeavesRoom

\* An exit check leaves an open row the same decision: still open, or closed.
LEMMA ExitRow ==
  ASSUME NEW t, NEW row, NEW q, IsRow(row), row.status = "OPEN"
  PROVE  IsRow(ExitCheck(t, row, q).row) /\ SameDecision(row, ExitCheck(t, row, q).row)
<1>1. ASSUME NEW mark
      PROVE  LET new == [row EXCEPT !.mark = mark]
             IN  IsRow(new) /\ new.status = "OPEN" /\ SameDecision(row, new)
  BY DEF IsRow, RowFields, SameDecision
<1>2. ASSUME NEW old, IsRow(old), old.status = "OPEN", SameDecision(row, old),
             NEW price, NEW fee, NEW reason, NEW at
      PROVE  IsRow(Closed(old, price, fee, reason, at))
               /\ SameDecision(row, Closed(old, price, fee, reason, at))
  <2> DEFINE new == Closed(old, price, fee, reason, at)
  <2>1. /\ DOMAIN new = RowFields /\ new.status = "CLOSED"
        /\ new.pf = old.pf /\ new.sig = old.sig
        /\ new.price = old.price /\ new.size = old.size
        /\ new.entryFee = old.entryFee /\ new.entryAt = old.entryAt
    BY <1>2 DEF Closed, IsRow, RowFields
  <2>. HIDE DEF new
  <2>2. IsRow(new)
    BY <1>2, <2>1 DEF IsRow
  <2>3. SameDecision(row, new)
    BY <1>2, <2>1 DEF SameDecision
  <2>. QED
    BY <2>2, <2>3 DEF new
<1> DEFINE new == ExitCheck(t, row, q).row
<1>3. \/ \E mark : new = [row EXCEPT !.mark = mark]
      \/ \E mark, price, fee, reason :
           new = Closed([row EXCEPT !.mark = mark], price, fee, reason, t.at)
  BY DEF ExitCheck
<1>. SUFFICES IsRow(new) /\ SameDecision(row, new)
  OBVIOUS
<1>. HIDE DEF new
<1>4. CASE \E mark : new = [row EXCEPT !.mark = mark]
  BY <1>1, <1>4
<1>5. CASE \E mark, price, fee, reason :
             new = Closed([row EXCEPT !.mark = mark], price, fee, reason, t.at)
  <2>1. PICK mark, price, fee, reason :
               new = Closed([row EXCEPT !.mark = mark], price, fee, reason, t.at)
    BY <1>5
  <2>. DEFINE old == [row EXCEPT !.mark = mark]
  <2>2. IsRow(old) /\ old.status = "OPEN" /\ SameDecision(row, old)
    BY <1>1
  <2>. HIDE DEF old
  <2>3. IsRow(Closed(old, price, fee, reason, t.at))
          /\ SameDecision(row, Closed(old, price, fee, reason, t.at))
    BY <1>2, <2>2
  <2>. QED
    BY <2>1, <2>3 DEF old
<1>. QED
  BY <1>3, <1>4, <1>5

-----------------------------------------------------------------------------
(***************************************************************************)
(* The invariant is inductive.                                             *)
(***************************************************************************)
LEMMA EmptyTableOK == TableOK(<<>>)
<1>1. <<>> \in Seq({<<>>[i] : i \in DOMAIN <<>>}) /\ DOMAIN <<>> = {}
  BY EmptySeq
<1>2. \A pf \in Portfolios : OfPortfolio(<<>>, DOMAIN <<>>, pf, "OPEN") = {}
  BY <1>1 DEF OfPortfolio
<1>3. WithinCap(<<>>)
  <2> SUFFICES ASSUME NEW pf \in Portfolios
               PROVE  Cardinality(OfPortfolio(<<>>, DOMAIN <<>>, pf, "OPEN"))
                        <= Config[pf].maxOpenPositions
    BY DEF WithinCap
  <2>1. Config[pf].maxOpenPositions \in Nat
    BY ConfigAssumption
  <2>2. Cardinality(OfPortfolio(<<>>, DOMAIN <<>>, pf, "OPEN")) = 0
    BY <1>2, FS_EmptySet
  <2>. QED
    BY <2>1, <2>2
<1>. QED
  BY <1>1, <1>3 DEF TableOK, IsTable, DecidedOnce

\* An empty table and no cycle satisfy the invariant.
LEMMA IInvInit == Init => IInv
BY EmptyTableOK DEF Init, IInv

\* A committed row keeps its decision when its open copy is overwritten by an
\* exit check.
LEMMA SameDecisionStep ==
  ASSUME NEW old, NEW copy, NEW new, SameDecision(old, copy), copy.status = "OPEN",
         SameDecision(copy, new)
  PROVE  SameDecision(old, new)
BY DEF SameDecision

\* A cycle begins with a copy of the committed table.
LEMMA BeginCycleKeepsIInv == IInv /\ BeginCycle => IInv'
<1> SUFFICES ASSUME IInv, BeginCycle PROVE IInv'
  OBVIOUS
<1>1. /\ rows' = rows /\ txn'.rows = rows /\ txn'.base = Len(rows) /\ txn'.phase = "pick"
      /\ DOMAIN txn' = TxnFields /\ DOMAIN txn'.todo = Signals
  BY DEF BeginCycle, TxnFields, NothingToDecide
<1>2. TableOK(rows) /\ DOMAIN rows = 1..Len(rows) /\ Len(rows) \in Nat
  BY TableLength DEF IInv, TableOK
<1>3. IsTxn(txn)' /\ TableOK(txn.rows)' /\ ListIsUndecided(txn)' /\ OpenListIsOpen(txn)'
  BY <1>1, <1>2 DEF IsTxn, ListIsUndecided, OpenListIsOpen
<1>4. ExtendsTable(txn)'
  BY <1>1, <1>2 DEF ExtendsTable, SameDecision, TableOK, IsRow
<1>5. NewRowsOfWorkedPortfolios(txn)'
  BY <1>1, <1>2 DEF NewRowsOfWorkedPortfolios
<1>. QED
  BY <1>1, <1>2, <1>3, <1>4, <1>5 DEF IInv, CycleOK

\* The list read at the start of a portfolio has no signal it decided before.
LEMMA StartPortfolioKeepsIInv ==
  ASSUME NEW pf \in Portfolios PROVE IInv /\ StartPortfolio(pf) => IInv'
<1> SUFFICES ASSUME IInv, StartPortfolio(pf) PROVE IInv'
  OBVIOUS
<1>1. CycleOK(txn) /\ txn.phase = "pick" /\ pf \in txn.left /\ rows' = rows
  BY DEF IInv, StartPortfolio
<1>2. DOMAIN txn = TxnFields /\ txn.base = Len(rows)
  BY <1>1 DEF CycleOK, IsTxn
<1> DEFINE undecided == {s \in Signals : sig[s].status = "ACTIVE"} \ AlreadyDecided(txn, pf)
<1>3. /\ txn'.rows = txn.rows /\ txn'.base = txn.base /\ txn'.left = txn.left
      /\ txn'.phase = "entries" /\ txn'.pf = pf /\ DOMAIN txn' = TxnFields
      /\ txn'.todo = [s \in Signals |-> IF s \in undecided THEN sig[s].score ELSE 0]
  BY <1>2 DEF StartPortfolio, TxnFields
<1>4. TableOK(rows) /\ TableOK(txn.rows) /\ DOMAIN txn.rows = 1..Len(txn.rows)
        /\ Len(rows) \in Nat /\ Len(txn.rows) \in Nat
  BY <1>1, TableLength DEF IInv, CycleOK, TableOK
<1>5. IsTxn(txn)' /\ TableOK(txn.rows)' /\ OpenListIsOpen(txn)' /\ ExtendsTable(txn)'
  BY <1>1, <1>2, <1>3, <1>4 DEF IsTxn, OpenListIsOpen, ExtendsTable, CycleOK
<1>6. NewRowsOfWorkedPortfolios(txn)'
  BY <1>1, <1>3 DEF NewRowsOfWorkedPortfolios, Untouched, CycleOK
<1>7. ListIsUndecided(txn)'
  <2> SUFFICES ASSUME NEW s \in Signals, NEW i \in DOMAIN txn.rows,
                      txn'.todo[s] > 0, txn.rows[i].pf = pf, txn.rows[i].sig = s
               PROVE  FALSE
    BY <1>3 DEF ListIsUndecided
  <2>1. s \in undecided
    BY <1>3
  <2>2. i \notin 1..Len(rows)
    BY <1>2, <2>1 DEF AlreadyDecided, Visible
  <2>3. i > txn.base
    BY <1>2, <1>4, <2>2
  <2>. QED
    BY <1>1, <2>3 DEF CycleOK, NewRowsOfWorkedPortfolios, Untouched
<1>. QED
  BY <1>1, <1>3, <1>4, <1>5, <1>6, <1>7 DEF IInv, CycleOK

\* Skipping a signal of a closed market writes nothing.
LEMMA SkipClosedMarketKeepsIInv ==
  ASSUME NEW s \in Signals PROVE IInv /\ SkipClosedMarket(s) => IInv'
<1> SUFFICES ASSUME IInv, SkipClosedMarket(s) PROVE IInv'
  OBVIOUS
<1>1. CycleOK(txn) /\ txn.phase = "entries" /\ rows' = rows
  BY DEF IInv, SkipClosedMarket
<1>2. DOMAIN txn = TxnFields /\ DOMAIN txn.todo = Signals
  BY <1>1 DEF CycleOK, IsTxn
<1>3. /\ txn'.rows = txn.rows /\ txn'.base = txn.base /\ txn'.left = txn.left
      /\ txn'.phase = txn.phase /\ txn'.pf = txn.pf /\ DOMAIN txn' = TxnFields
      /\ txn'.todo = [txn.todo EXCEPT ![s] = 0]
  BY <1>2 DEF SkipClosedMarket, TxnFields
<1>4. IsTxn(txn)' /\ TableOK(txn.rows)' /\ OpenListIsOpen(txn)' /\ ExtendsTable(txn)'
  BY <1>1, <1>2, <1>3 DEF IsTxn, OpenListIsOpen, ExtendsTable, CycleOK
<1>5. NewRowsOfWorkedPortfolios(txn)'
  BY <1>1, <1>3 DEF NewRowsOfWorkedPortfolios, Untouched, CycleOK
<1>6. ListIsUndecided(txn)'
  BY <1>1, <1>2, <1>3 DEF ListIsUndecided, CycleOK
<1>. QED
  BY <1>1, <1>4, <1>5, <1>6 DEF IInv, CycleOK

\* A decision appends one row, for a signal that leaves the list.
LEMMA DecideSignalKeepsIInv ==
  ASSUME NEW s \in Signals PROVE IInv /\ DecideSignal(s) => IInv'
<1> SUFFICES ASSUME IInv, DecideSignal(s) PROVE IInv'
  OBVIOUS
<1>1. CycleOK(txn) /\ txn.phase = "entries" /\ rows' = rows /\ txn.todo[s] > 0
  BY DEF IInv, DecideSignal, NextUndecided
<1>2. DOMAIN txn = TxnFields /\ DOMAIN txn.todo = Signals /\ txn.pf \in Portfolios
        /\ txn.base = Len(rows)
  BY <1>1 DEF CycleOK, IsTxn
<1>3. PICK q \in Quotes[txn.pf], score \in EntryScores(txn, s) :
        \E gate \in {Gate(txn, s)} :
          \E fill \in {ComputeFill(SignalPrice[s], gate.notional, q, Config[txn.pf])} :
            LET row == Decision(txn, s, score, q, gate, fill)
            IN  txn' = [txn EXCEPT !.todo[s] = 0, !.rows = Append(@, row),
                              !.cash[txn.pf] = @ - (Cost(row) + row.entryFee)]
  BY DEF DecideSignal
<1> DEFINE fill == ComputeFill(SignalPrice[s], Gate(txn, s).notional, q, Config[txn.pf])
<1> DEFINE row == Decision(txn, s, score, q, Gate(txn, s), fill)
<1>4. /\ IsRow(row) /\ row.pf = txn.pf /\ row.sig = s /\ row.status \in {"MISSED", "OPEN"}
      /\ row.status = "OPEN" => Gate(txn, s).stage = "FILL"
  BY <1>2, DecisionRow
<1>. HIDE DEF row
<1>5. /\ txn'.rows = Append(txn.rows, row) /\ txn'.base = txn.base /\ txn'.left = txn.left
      /\ txn'.phase = "entries" /\ txn'.pf = txn.pf /\ DOMAIN txn' = TxnFields
      /\ txn'.todo = [txn.todo EXCEPT ![s] = 0]
  BY <1>1, <1>2, <1>3 DEF TxnFields, row
<1>6. /\ TableOK(rows) /\ TableOK(txn.rows) /\ IsTable(txn.rows)
      /\ DOMAIN txn.rows = 1..Len(txn.rows) /\ Len(txn.rows) \in Nat /\ Len(rows) \in Nat
      /\ Len(rows) <= Len(txn.rows)
  BY <1>1, TableLength DEF IInv, CycleOK, TableOK, ExtendsTable
<1>7. /\ Len(txn'.rows) = Len(txn.rows) + 1
      /\ DOMAIN txn'.rows = 1..(Len(txn.rows) + 1)
      /\ \A i \in 1..Len(txn.rows) : txn'.rows[i] = txn.rows[i]
      /\ txn'.rows[Len(txn.rows) + 1] = row
  BY <1>5, <1>6, AppendRow
<1>8. TableOK(txn.rows)'
  <2>1. \A i \in DOMAIN txn.rows : txn.rows[i].pf = row.pf => txn.rows[i].sig # row.sig
    BY <1>1, <1>4 DEF CycleOK, ListIsUndecided
  <2>2. row.status = "OPEN" /\ "MAX_OPEN_POSITIONS" \in Config[row.pf].enabled =>
           ~(Cardinality(OfPortfolio(txn.rows, DOMAIN txn.rows, row.pf, "OPEN"))
               >= Config[row.pf].maxOpenPositions)
    BY <1>4, GateLeavesRoom
  <2>. QED
    <3>1. TableOK(Append(txn.rows, row))
      BY <1>4, <1>6, <2>1, <2>2, AppendKeepsTable
    <3>. QED
      BY <1>5, <3>1
<1>9. IsTxn(txn)' /\ OpenListIsOpen(txn)'
  BY <1>1, <1>2, <1>5 DEF IsTxn, OpenListIsOpen
<1>10. ExtendsTable(txn)'
  BY <1>1, <1>6, <1>7 DEF ExtendsTable, CycleOK
<1>11. NewRowsOfWorkedPortfolios(txn)'
  BY <1>1, <1>4, <1>5, <1>6, <1>7 DEF NewRowsOfWorkedPortfolios, Untouched, CycleOK
<1>12. ListIsUndecided(txn)'
  BY <1>1, <1>2, <1>4, <1>5, <1>6, <1>7 DEF ListIsUndecided, CycleOK
<1>. QED
  BY <1>1, <1>6, <1>8, <1>9, <1>10, <1>11, <1>12 DEF IInv, CycleOK

\* The exits' list holds the open rows a SELECT sees.
LEMMA StartExitsKeepsIInv == IInv /\ StartExits => IInv'
<1> SUFFICES ASSUME IInv, StartExits PROVE IInv'
  OBVIOUS
<1>1. CycleOK(txn) /\ txn.phase = "entries" /\ rows' = rows
  BY DEF IInv, StartExits
<1>2. DOMAIN txn = TxnFields /\ txn.base = Len(rows)
  BY <1>1 DEF CycleOK, IsTxn
<1>3. /\ txn'.rows = txn.rows /\ txn'.base = txn.base /\ txn'.left = txn.left
      /\ txn'.phase = "exits" /\ txn'.pf = txn.pf /\ DOMAIN txn' = TxnFields
      /\ txn'.todo = txn.todo
      /\ txn'.open = OfPortfolio(txn.rows, Visible(txn), txn.pf, "OPEN")
  BY <1>2 DEF StartExits, TxnFields
<1>4. IsTxn(txn)' /\ TableOK(txn.rows)' /\ ExtendsTable(txn)' /\ ListIsUndecided(txn)'
  BY <1>1, <1>2, <1>3 DEF IsTxn, ExtendsTable, ListIsUndecided, CycleOK
<1>5. OpenListIsOpen(txn)'
  BY <1>1, <1>2, <1>3 DEF OpenListIsOpen, OfPortfolio, Visible
<1>6. NewRowsOfWorkedPortfolios(txn)'
  BY <1>1, <1>3 DEF NewRowsOfWorkedPortfolios, Untouched, CycleOK
<1>. QED
  BY <1>1, <1>4, <1>5, <1>6 DEF IInv, CycleOK

\* Checking a trade overwrites one open row of the list.
LEMMA CheckTradeKeepsIInv ==
  ASSUME NEW n PROVE IInv /\ CheckTrade(n) => IInv'
<1> SUFFICES ASSUME IInv, CheckTrade(n) PROVE IInv'
  OBVIOUS
<1>1. /\ CycleOK(txn) /\ txn.phase = "exits" /\ rows' = rows
      /\ n \in txn.open /\ n \in 1..Len(rows)
  BY DEF IInv, CheckTrade, CycleOK, OpenListIsOpen
<1>2. DOMAIN txn = TxnFields /\ txn.pf \in Portfolios /\ txn.base = Len(rows)
  BY <1>1 DEF CycleOK, IsTxn
<1>3. PICK q \in Quotes[txn.pf] :
        \E checked \in {ExitCheck(txn, txn.rows[n], q)} :
          txn' = [txn EXCEPT !.open = @ \ {n}, !.rows[n] = checked.row,
                             !.cash[txn.pf] = @ + checked.credit]
  BY DEF CheckTrade
<1> DEFINE row == ExitCheck(txn, txn.rows[n], q).row
<1>4. /\ TableOK(rows) /\ TableOK(txn.rows) /\ IsTable(txn.rows)
      /\ DOMAIN txn.rows = 1..Len(txn.rows) /\ Len(txn.rows) \in Nat /\ Len(rows) \in Nat
      /\ Len(rows) <= Len(txn.rows)
  BY <1>1, TableLength DEF IInv, CycleOK, TableOK, ExtendsTable
<1>5. n \in DOMAIN txn.rows /\ IsRow(txn.rows[n]) /\ txn.rows[n].status = "OPEN"
  BY <1>1, <1>4 DEF CycleOK, OpenListIsOpen, TableOK
<1>6. IsRow(row) /\ SameDecision(txn.rows[n], row)
  BY <1>5, ExitRow
<1>7. row.pf = txn.rows[n].pf /\ row.sig = txn.rows[n].sig
  BY <1>6 DEF SameDecision
<1>. HIDE DEF row
<1>8. /\ txn'.rows = [txn.rows EXCEPT ![n] = row] /\ txn'.base = txn.base
      /\ txn'.left = txn.left /\ txn'.phase = "exits" /\ txn'.pf = txn.pf
      /\ DOMAIN txn' = TxnFields /\ txn'.todo = txn.todo /\ txn'.open = txn.open \ {n}
  BY <1>1, <1>2, <1>3 DEF TxnFields, row
<1>9. /\ Len(txn'.rows) = Len(txn.rows) /\ DOMAIN txn'.rows = DOMAIN txn.rows
      /\ \A i \in DOMAIN txn.rows : txn'.rows[i] = IF i = n THEN row ELSE txn.rows[i]
  BY <1>4, <1>5, <1>8, OverwriteRow
<1>10. TableOK(txn.rows)'
  <2>1. TableOK([txn.rows EXCEPT ![n] = row])
    BY <1>4, <1>5, <1>6, <1>7, OverwriteKeepsTable
  <2>. QED
    BY <1>8, <2>1
<1>11. IsTxn(txn)' /\ ListIsUndecided(txn)'
  BY <1>1, <1>2, <1>8 DEF IsTxn, ListIsUndecided, CycleOK
<1>12. ExtendsTable(txn)'
  <2>1. \A i \in 1..Len(rows) : SameDecision(rows[i], txn.rows[i]) /\ i \in DOMAIN txn.rows
    BY <1>1, <1>4 DEF CycleOK, ExtendsTable
  <2>2. SameDecision(rows[n], row)
    BY <1>1, <1>5, <1>6, <2>1, SameDecisionStep
  <2>3. \A i \in 1..Len(rows) : SameDecision(rows[i], txn'.rows[i])
    BY <1>9, <2>1, <2>2
  <2>. QED
    BY <1>1, <1>4, <1>9, <2>3 DEF ExtendsTable
<1>13. NewRowsOfWorkedPortfolios(txn)'
  BY <1>1, <1>2, <1>4, <1>7, <1>8, <1>9 DEF NewRowsOfWorkedPortfolios, Untouched, CycleOK
<1>14. OpenListIsOpen(txn)'
  BY <1>1, <1>4, <1>8, <1>9 DEF OpenListIsOpen, CycleOK
<1>. QED
  BY <1>1, <1>4, <1>10, <1>11, <1>12, <1>13, <1>14 DEF IInv, CycleOK

\* Passing to the next portfolio marks this one as worked on.
LEMMA FinishPortfolioKeepsIInv == IInv /\ FinishPortfolio => IInv'
<1> SUFFICES ASSUME IInv, FinishPortfolio PROVE IInv'
  OBVIOUS
<1>1. CycleOK(txn) /\ txn.phase = "exits" /\ rows' = rows
  BY DEF IInv, FinishPortfolio
<1>2. DOMAIN txn = TxnFields
  BY <1>1 DEF CycleOK, IsTxn
<1>3. /\ txn'.rows = txn.rows /\ txn'.base = txn.base /\ txn'.left = txn.left \ {txn.pf}
      /\ txn'.phase = "pick" /\ DOMAIN txn' = TxnFields /\ txn'.todo = txn.todo
  BY <1>2 DEF FinishPortfolio, TxnFields
<1>4. IsTxn(txn)' /\ TableOK(txn.rows)' /\ ExtendsTable(txn)' /\ ListIsUndecided(txn)'
        /\ OpenListIsOpen(txn)'
  BY <1>1, <1>2, <1>3 DEF IsTxn, ExtendsTable, ListIsUndecided, OpenListIsOpen, CycleOK
<1>5. NewRowsOfWorkedPortfolios(txn)'
  BY <1>1, <1>3 DEF NewRowsOfWorkedPortfolios, Untouched, CycleOK
<1>. QED
  BY <1>1, <1>4, <1>5 DEF IInv, CycleOK

\* A commit publishes a table that already satisfies the conditions.
LEMMA CommitCycleKeepsIInv == IInv /\ CommitCycle => IInv'
BY DEF IInv, CycleOK, CommitCycle

\* A rollback drops the transaction's table.
LEMMA FailCycleKeepsIInv == IInv /\ FailCycle => IInv'
BY DEF IInv, FailCycle

\* Consensus, the collectors, the operator and the clock write other tables.
LEMMA ServicesKeepTable == Services => UNCHANGED <<rows, txn>>
<1> SUFFICES ASSUME Services PROVE UNCHANGED <<rows, txn>>
  OBVIOUS
<1>1. ASSUME NEW s \in Signals, CreateSignal(s) \/ ReinforceSignal(s) \/ ExpireSignal(s)
      PROVE  UNCHANGED <<rows, txn>>
  BY <1>1 DEF CreateSignal, ReinforceSignal, ExpireSignal
<1>2. ASSUME NEW m \in Markets, CloseMarket(m) \/ RecordResolution(m)
      PROVE  UNCHANGED <<rows, txn>>
  BY <1>2 DEF CloseMarket, RecordResolution
<1>3. FlipEmergencyStop \/ Tick => UNCHANGED <<rows, txn>>
  BY DEF FlipEmergencyStop, Tick
<1>. QED
  BY <1>1, <1>2, <1>3 DEF Services

\* The invariant reads nothing but the two tables.
LEMMA StutterKeepsIInv == IInv /\ UNCHANGED <<rows, txn>> => IInv'
<1> SUFFICES ASSUME IInv, UNCHANGED <<rows, txn>> PROVE IInv'
  OBVIOUS
<1>1. txn # NoTxn => CycleOK(txn)'
  BY DEF IInv, CycleOK, IsTxn, ExtendsTable, NewRowsOfWorkedPortfolios, ListIsUndecided,
         OpenListIsOpen, Untouched
<1>. QED
  BY <1>1 DEF IInv

\* Every step keeps the invariant: one lemma for each action.
LEMMA IInvStep == IInv /\ [Next]_vars => IInv'
<1> SUFFICES ASSUME IInv, [Next]_vars PROVE IInv'
  OBVIOUS
<1>1. CASE Services
  BY <1>1, ServicesKeepTable, StutterKeepsIInv
<1>2. CASE BeginCycle
  BY <1>2, BeginCycleKeepsIInv
<1>3. ASSUME NEW pf \in Portfolios, StartPortfolio(pf) PROVE IInv'
  BY <1>3, StartPortfolioKeepsIInv
<1>4. ASSUME NEW s \in Signals, SkipClosedMarket(s) PROVE IInv'
  BY <1>4, SkipClosedMarketKeepsIInv
<1>5. ASSUME NEW s \in Signals, DecideSignal(s) PROVE IInv'
  BY <1>5, DecideSignalKeepsIInv
<1>6. CASE StartExits
  BY <1>6, StartExitsKeepsIInv
<1>7. ASSUME NEW n, CheckTrade(n) PROVE IInv'
  BY <1>7, CheckTradeKeepsIInv
<1>8. CASE FinishPortfolio
  BY <1>8, FinishPortfolioKeepsIInv
<1>9. CASE CommitCycle
  BY <1>9, CommitCycleKeepsIInv
<1>10. CASE FailCycle
  BY <1>10, FailCycleKeepsIInv
<1>11. CASE UNCHANGED vars
  BY <1>11, StutterKeepsIInv DEF vars
<1>. QED
  BY <1>1, <1>2, <1>3, <1>4, <1>5, <1>6, <1>7, <1>8, <1>9, <1>10, <1>11 DEF Next, Cycle

-----------------------------------------------------------------------------
(***************************************************************************)
(* The theorems.                                                           *)
(***************************************************************************)

\* The invariant holds in every reachable state.
THEOREM Invariance == Spec => []IInv
BY IInvInit, IInvStep, PTL DEF Spec

\* paper_trades has at most one row for a portfolio and a signal, whatever is
\* committed to the tables the engine reads and however often a cycle fails
\* (PaperTrade, select_undecided_signals).
THEOREM DecidesOnce == Spec => []OneDecisionPerSignal
<1>1. IInv => OneDecisionPerSignal
  BY DEF IInv, TableOK, OneDecisionPerSignal
<1>. QED
  BY <1>1, Invariance, PTL

\* No portfolio ever holds more open trades than its cap, however many signals
\* one cycle enters (rule_max_open_positions, _run_entries).
THEOREM StaysWithinCap == Spec => []OpenCountWithinCap
<1>1. IInv => OpenCountWithinCap
  BY DEF IInv, TableOK, OpenCountWithinCap
<1>. QED
  BY <1>1, Invariance, PTL

\* A row never disappears; a missed or closed one never changes, an open one
\* keeps its entry and can only close (docs/PHASE4_DESIGN.md, flag 2).
THEOREM NeverReconsiders == Spec => DecisionsAreFinal
<1> DEFINE Final == /\ Len(rows') >= Len(rows)
                    /\ \A i \in DOMAIN rows : SameDecision(rows[i], rows'[i])
<1>1. IInv /\ [Next]_vars => [Final]_rows
  <2> SUFFICES ASSUME IInv, Next, rows' # rows PROVE Final
    BY DEF vars
  <2>1. CommitCycle
    BY ServicesKeepTable DEF Next, Cycle, BeginCycle, StartPortfolio, SkipClosedMarket,
         DecideSignal, StartExits, CheckTrade, FinishPortfolio, FailCycle
  <2>2. CycleOK(txn) /\ rows' = txn.rows
    BY <2>1 DEF IInv, CommitCycle
  <2>3. Len(rows) \in Nat /\ Len(txn.rows) \in Nat /\ DOMAIN rows = 1..Len(rows)
    BY <2>2, TableLength DEF IInv, CycleOK, TableOK
  <2>. QED
    BY <2>2, <2>3 DEF CycleOK, ExtendsTable
<1>2. IInv /\ [Next]_vars => [/\ Len(rows') >= Len(rows)
                             /\ \A i \in DOMAIN rows : SameDecision(rows[i], rows'[i])]_rows
  BY <1>1
<1>. QED
  BY <1>2, Invariance, PTL DEF Spec, DecisionsAreFinal
-----------------------------------------------------------------------------
(***************************************************************************)
(* The engine implements the trade lifecycle.                              *)
(***************************************************************************)

\* The only row of a portfolio for a signal is what the portfolio made of it.
LEMMA StatusOfRow ==
  ASSUME NEW rs, DecidedOnce(rs), NEW i \in DOMAIN rs
  PROVE  StatusIn(rs, rs[i].pf, rs[i].sig) = rs[i].status
<1> DEFINE ids == {j \in DOMAIN rs : rs[j].pf = rs[i].pf /\ rs[j].sig = rs[i].sig}
<1>1. ids = {i}
  BY DEF DecidedOnce
<1>2. (CHOOSE j \in ids : TRUE) = i
  BY <1>1
<1>. QED
  BY <1>1, <1>2 DEF StatusIn

\* Without a row there is no decision.
LEMMA StatusOfNoRow ==
  ASSUME NEW rs, NEW pf, NEW s, \A i \in DOMAIN rs : ~(rs[i].pf = pf /\ rs[i].sig = s)
  PROVE  StatusIn(rs, pf, s) = "none"
BY DEF StatusIn

\* What a commit makes of one signal of one portfolio.
LEMMA CommitMovesAllowed ==
  ASSUME IInv, CommitCycle, NEW pf \in Portfolios, NEW s \in Signals
  PROVE  <<StatusIn(rows, pf, s), StatusIn(rows', pf, s)>> \in Lifecycle!Allowed
<1>1. CycleOK(txn) /\ rows' = txn.rows /\ TableOK(rows) /\ TableOK(rows')
  BY DEF IInv, CommitCycle, CycleOK
<1>2. /\ txn.base = Len(rows) /\ Len(rows) \in Nat /\ Len(rows') \in Nat
      /\ Len(rows) <= Len(rows')
      /\ DOMAIN rows = 1..Len(rows) /\ DOMAIN rows' = 1..Len(rows')
      /\ \A i \in DOMAIN rows : i \in DOMAIN rows' /\ SameDecision(rows[i], rows'[i])
  BY <1>1, TableLength DEF CycleOK, IsTxn, ExtendsTable, TableOK
<1>3. CASE \E i \in DOMAIN rows : rows[i].pf = pf /\ rows[i].sig = s
  <2>1. PICK i \in DOMAIN rows : rows[i].pf = pf /\ rows[i].sig = s
    BY <1>3
  <2>2. rows'[i].pf = pf /\ rows'[i].sig = s
    BY <1>2, <2>1 DEF SameDecision
  <2>3. StatusIn(rows, pf, s) = rows[i].status
    BY <1>1, <2>1, StatusOfRow DEF TableOK
  <2>4. StatusIn(rows', pf, s) = rows'[i].status
    BY <1>1, <1>2, <2>2, StatusOfRow DEF TableOK
  <2>5. /\ rows[i].status \in {"OPEN", "CLOSED", "MISSED"}
        /\ rows[i].status # "OPEN" => rows'[i] = rows[i]
        /\ rows[i].status = "OPEN" => rows'[i].status \in {"OPEN", "CLOSED"}
    BY <1>1, <1>2 DEF SameDecision, TableOK, IsRow
  <2>. QED
    BY <2>3, <2>4, <2>5 DEF Lifecycle!Allowed
<1>4. CASE \A i \in DOMAIN rows : ~(rows[i].pf = pf /\ rows[i].sig = s)
  <2>1. StatusIn(rows, pf, s) = "none"
    BY <1>4, StatusOfNoRow
  <2>2. CASE \A i \in DOMAIN rows' : ~(rows'[i].pf = pf /\ rows'[i].sig = s)
    <3>1. StatusIn(rows', pf, s) = "none"
      BY <2>2, StatusOfNoRow
    <3>. QED
      BY <2>1, <3>1 DEF Lifecycle!Allowed
  <2>3. CASE \E i \in DOMAIN rows' : rows'[i].pf = pf /\ rows'[i].sig = s
    <3>1. PICK i \in DOMAIN rows' : rows'[i].pf = pf /\ rows'[i].sig = s
      BY <2>3
    <3>2. StatusIn(rows', pf, s) = rows'[i].status
      BY <1>1, <3>1, StatusOfRow DEF TableOK
    <3>3. i > txn.base
      BY <1>2, <1>4, <3>1 DEF SameDecision
    <3>4. rows'[i].status \in {"OPEN", "MISSED"}
      BY <1>1, <3>1, <3>3 DEF CycleOK, NewRowsOfWorkedPortfolios, TableOK, IsRow
    <3>. QED
      BY <2>1, <3>2, <3>4 DEF Lifecycle!Allowed
  <2>. QED
    BY <2>2, <2>3
<1>. QED
  BY <1>3, <1>4

\* Seen from the committed table every cycle is one step of the trade lifecycle:
\* a signal keeps its decision, gets its only one, or has its trade closed, and
\* no trade opens and closes in one cycle (_run_cycle_sync in one db_session).
THEOREM Implements == Spec => ImplementsLifecycle
<1>1. Init => Lifecycle!Init
  <2> SUFFICES ASSUME Init PROVE Lifecycle!Init
    OBVIOUS
  <2>1. DOMAIN rows = {}
    BY EmptySeq DEF Init
  <2>2. \A pf \in Portfolios, s \in Signals : StatusIn(rows, pf, s) = "none"
    BY <2>1, StatusOfNoRow
  <2>. QED
    BY <2>2 DEF Lifecycle!Init
<1>2. IInv /\ [Next]_vars =>
        [Lifecycle!Cycle]_([k \in Portfolios \X Signals |-> StatusIn(rows, k[1], k[2])])
  <2> SUFFICES ASSUME IInv, Next, rows' # rows PROVE Lifecycle!Cycle
    BY DEF vars
  <2>1. CommitCycle
    BY ServicesKeepTable DEF Next, Cycle, BeginCycle, StartPortfolio, SkipClosedMarket,
         DecideSignal, StartExits, CheckTrade, FinishPortfolio, FailCycle
  <2>2. \A k \in Portfolios \X Signals :
          <<StatusIn(rows, k[1], k[2]), StatusIn(rows', k[1], k[2])>> \in Lifecycle!Allowed
    BY <2>1, CommitMovesAllowed
  <2>. QED
    BY <2>2 DEF Lifecycle!Cycle
<1>. QED
  BY <1>1, <1>2, Invariance, PTL DEF Spec, ImplementsLifecycle, Lifecycle!Spec
-----------------------------------------------------------------------------
(***************************************************************************)
(* Resolution is ground truth.                                             *)
(***************************************************************************)
ClosedFlags == closed \in [Markets -> BOOLEAN]

\* The closed flag of a market is a flag in every reachable state.
LEMMA FlagsInvariance == Spec => []ClosedFlags
<1>1. Init => ClosedFlags
  BY DEF Init, ClosedFlags
<1>2. ClosedFlags /\ [Next]_vars => ClosedFlags'
  <2> SUFFICES ASSUME ClosedFlags, [Next]_vars PROVE ClosedFlags'
    OBVIOUS
  <2>1. ASSUME NEW m \in Markets, CloseMarket(m) \/ RecordResolution(m) PROVE ClosedFlags'
    BY <2>1 DEF CloseMarket, RecordResolution, ClosedFlags
  <2>2. CASE \E s \in Signals : CreateSignal(s) \/ ReinforceSignal(s) \/ ExpireSignal(s)
    BY <2>2 DEF CreateSignal, ReinforceSignal, ExpireSignal, ClosedFlags
  <2>3. CASE FlipEmergencyStop \/ Tick \/ UNCHANGED vars
    BY <2>3 DEF FlipEmergencyStop, Tick, vars, ClosedFlags
  <2>4. CASE Cycle \/ FailCycle
    <3>1. UNCHANGED closed
      BY <2>4 DEF Cycle, BeginCycle, StartPortfolio, SkipClosedMarket, DecideSignal, StartExits,
           CheckTrade, FinishPortfolio, CommitCycle, FailCycle, services
    <3>. QED
      BY <3>1 DEF ClosedFlags
  <2>. QED
    BY <2>1, <2>2, <2>3, <2>4 DEF Next, Services
<1>. QED
  BY <1>1, <1>2, PTL DEF Spec

\* The outcome of a market is looked for exactly when it is closed.
LEMMA ResolvedWhenClosed ==
  ASSUME NEW c \in BOOLEAN, NEW price, NEW threshold
  PROVE  LET resolution == DetectResolution(c, price, threshold)
         IN  /\ resolution \in {"NOT_RESOLVED", "AMBIGUOUS", "WON", "LOST"}
             /\ c <=> resolution # "NOT_RESOLVED"
BY DEF DetectResolution

\* A payout is never taken for the other one.
LEMMA PayoutDecides ==
  ASSUME NEW threshold \in 0..99
  PROVE  /\ DetectResolution(TRUE, 100, threshold) # "LOST"
         /\ DetectResolution(TRUE, 0, threshold) # "WON"
BY DEF DetectResolution

\* The exit ladder gives resolution as its reason exactly for a resolved market.
LEMMA ResolutionIsTheReason ==
  ASSUME NEW entry, NEW mark, NEW pessimistic, NEW held, NEW signalAge, NEW cfg,
         NEW resolution \in {"NOT_RESOLVED", "WON", "LOST"}
  PROVE  CheckExit(entry, mark, pessimistic, held, signalAge, resolution, cfg) = "market_resolved"
           <=> resolution # "NOT_RESOLVED"
BY DEF CheckExit, CheckScalpExit

\* What an exit check that closes a trade writes.
LEMMA ExitSettles ==
  ASSUME ThresholdsBelowPayout, ClosedFlags,
         NEW t, t.pf \in Portfolios, NEW row, IsRow(row), row.status = "OPEN", NEW q,
         ExitCheck(t, row, q).row.status = "CLOSED"
  PROVE  LET new == ExitCheck(t, row, q).row
             market == MarketOf[row.sig]
         IN  /\ new.reason = "market_resolved" <=> closed[market]
             /\ new.reason = "market_resolved" =>
                  /\ new.exitFee = 0
                  /\ winner[market] = SideOf[row.sig] => new.exitPrice = 100
                  /\ winner[market] \in Sides \ {SideOf[row.sig]} => new.exitPrice = 0
<1> DEFINE cfg == Config[t.pf]
           market == MarketOf[row.sig]
           settlement == ResolutionPrice(row.sig, q)
           mark == IF q.latest # NoPrice THEN q.latest ELSE row.mark
           pessimistic == PessimisticExitPrice(row.size, mark, q, cfg)
           resolution == DetectResolution(closed[market], settlement, cfg.resolutionThreshold)
           ladder == CheckExit(row.price, mark, pessimistic, t.at - row.entryAt,
                               t.at - sig[row.sig].born, resolution, cfg)
           reason == IF resolution = "AMBIGUOUS" THEN "stay" ELSE ladder
           price == ExitPrice(reason, resolution, row.price, mark, pessimistic)
           fee == IF reason = "market_resolved" THEN 0 ELSE TakerFee(price, row.size, FeeRate(q, cfg))
           marked == [row EXCEPT !.mark = mark]
           new == ExitCheck(t, row, q).row
<1>1. closed[market] \in BOOLEAN
  BY ConfigAssumption DEF ClosedFlags, IsRow
<1>2. /\ resolution \in {"NOT_RESOLVED", "AMBIGUOUS", "WON", "LOST"}
      /\ closed[market] <=> resolution # "NOT_RESOLVED"
  BY <1>1, ResolvedWhenClosed
<1>3. new = IF reason = "stay" THEN marked ELSE Closed(marked, price, fee, reason, t.at)
  BY DEF ExitCheck
<1>4. resolution # "AMBIGUOUS" => (ladder = "market_resolved" <=> resolution # "NOT_RESOLVED")
  BY <1>2, ResolutionIsTheReason
<1>5. cfg.resolutionThreshold \in 0..99
  BY DEF ThresholdsBelowPayout
<1>6. /\ winner[market] = SideOf[row.sig] => settlement = 100
      /\ winner[market] \in Sides \ {SideOf[row.sig]} => settlement = 0
  BY ConfigAssumption DEF ResolutionPrice, Sides, IsRow
<1>7. closed[market] /\ settlement = 100 => resolution # "LOST"
  BY <1>1, <1>5, PayoutDecides
<1>8. closed[market] /\ settlement = 0 => resolution # "WON"
  BY <1>1, <1>5, PayoutDecides
<1>9. reason = "market_resolved" => price = IF resolution = "WON" THEN 100 ELSE 0
  BY DEF ExitPrice
<1>. HIDE DEF resolution, ladder, settlement, price, new, marked
<1>10. /\ marked.status = "OPEN" /\ DOMAIN marked = RowFields
  BY DEF marked, IsRow, RowFields
<1>11. reason # "stay" /\ new = Closed(marked, price, fee, reason, t.at)
  BY <1>3, <1>10 DEF new
<1>12. new.reason = reason /\ new.exitFee = fee /\ new.exitPrice = price
  BY <1>10, <1>11 DEF Closed, RowFields
<1>. QED
  BY <1>2, <1>3, <1>4, <1>6, <1>7, <1>8, <1>9, <1>10, <1>12 DEF new

\* While a cycle goes on, a trade it closes leaves because its market is resolved
\* exactly if the market is closed, and then at its payout and without a fee,
\* whatever else the cycle or the other services do (check_exit, _run_exits).
THEOREM ResolutionDecides ==
  ASSUME ThresholdsBelowPayout PROVE Spec => ResolutionIsGroundTruth
<1> DEFINE Settled(new) ==
      /\ new.reason = "market_resolved" <=> closed[MarketOf[new.sig]]
      /\ new.reason = "market_resolved" =>
           /\ new.exitFee = 0
           /\ winner[MarketOf[new.sig]] = SideOf[new.sig] => new.exitPrice = 100
           /\ winner[MarketOf[new.sig]] \in Sides \ {SideOf[new.sig]} => new.exitPrice = 0
    Settles == txn # NoTxn /\ txn' # NoTxn =>
                 \A i \in DOMAIN txn.rows :
                   txn.rows[i].status = "OPEN" /\ txn'.rows[i].status = "CLOSED" =>
                     Settled(txn'.rows[i])
<1>1. IInv /\ ClosedFlags /\ [Next]_vars => [Settles]_txn
  <2> SUFFICES ASSUME IInv, ClosedFlags, Next, txn # NoTxn, txn' # NoTxn, txn' # txn,
                      NEW i \in DOMAIN txn.rows,
                      txn.rows[i].status = "OPEN", txn'.rows[i].status = "CLOSED"
               PROVE  Settled(txn'.rows[i])
    BY DEF vars
  <2>1. /\ CycleOK(txn) /\ DOMAIN txn = TxnFields
        /\ IsTable(txn.rows) /\ IsRow(txn.rows[i])
    BY DEF IInv, CycleOK, IsTxn, TableOK
  <2>2. txn'.rows # txn.rows
    OBVIOUS
  <2>3. ASSUME NEW s \in Signals, DecideSignal(s) PROVE FALSE
    <3>1. PICK row : txn'.rows = Append(txn.rows, row)
      BY <2>1, <2>3 DEF DecideSignal, TxnFields
    <3>2. txn'.rows[i] = txn.rows[i]
      BY <2>1, <3>1, AppendRow, TableLength
    <3>. QED
      BY <3>2
  <2>4. PICK n : CheckTrade(n)
    BY <2>1, <2>2, <2>3, ServicesKeepTable DEF Next, Cycle, BeginCycle, StartPortfolio,
       SkipClosedMarket, StartExits, FinishPortfolio, CommitCycle, FailCycle, TxnFields
  <2>5. PICK q \in Quotes[txn.pf] :
          txn'.rows = [txn.rows EXCEPT ![n] = ExitCheck(txn, txn.rows[n], q).row]
    BY <2>1, <2>4 DEF CheckTrade, TxnFields
  <2> DEFINE new == ExitCheck(txn, txn.rows[i], q).row
  <2>6. i = n /\ txn'.rows[i] = new
    BY <2>1, <2>5
  <2>7. txn.pf \in Portfolios
    BY <2>1, <2>4 DEF CheckTrade, CycleOK, IsTxn
  <2>8. new.sig = txn.rows[i].sig
    BY <2>1, ExitRow DEF SameDecision
  <2>9. new.status = "CLOSED"
    BY <2>6
  <2>10. LET market == MarketOf[txn.rows[i].sig]
         IN  /\ new.reason = "market_resolved" <=> closed[market]
             /\ new.reason = "market_resolved" =>
                  /\ new.exitFee = 0
                  /\ winner[market] = SideOf[txn.rows[i].sig] => new.exitPrice = 100
                  /\ winner[market] \in Sides \ {SideOf[txn.rows[i].sig]} => new.exitPrice = 0
    BY <2>1, <2>7, <2>9, ExitSettles
  <2>. HIDE DEF new
  <2>. QED
    BY <2>6, <2>8, <2>10
<1>2. IInv /\ ClosedFlags /\ [Next]_vars =>
        [ txn # NoTxn /\ txn' # NoTxn =>
            \A i \in DOMAIN txn.rows :
              txn.rows[i].status = "OPEN" /\ txn'.rows[i].status = "CLOSED" =>
                LET row == txn'.rows[i]
                IN  /\ row.reason = "market_resolved" <=> closed[MarketOf[row.sig]]
                    /\ row.reason = "market_resolved" =>
                         /\ row.exitFee = 0
                         /\ winner[MarketOf[row.sig]] = SideOf[row.sig] => row.exitPrice = 100
                         /\ winner[MarketOf[row.sig]] \in Sides \ {SideOf[row.sig]} =>
                              row.exitPrice = 0 ]_txn
  BY <1>1
<1>. QED
  BY <1>2, Invariance, FlagsInvariance, PTL DEF Spec, ResolutionIsGroundTruth

-----------------------------------------------------------------------------
(***************************************************************************)
(* Prices are numbers: feeds, walks of the book, slippage and fills.       *)
(***************************************************************************)
Prices == Nat \cup {NoPrice}

IsQuote(q) ==
  /\ q.liquidity \in Prices /\ q.ask \in Prices /\ q.bid \in Prices
  /\ q.latest \in Prices /\ q.delayed \in Prices /\ q.feeRate \in Prices
  /\ q.book = NoPrice \/ q.book \in Seq(Levels)

\* What a read finds is typed.
LEMMA QuoteType ==
  ASSUME NEW pf \in Portfolios, NEW q \in Quotes[pf]
  PROVE  IsQuote(q)
<1>1. PICK f \in Feeds : q = Observation(f, Config[pf].entryDelay)
  BY DEF Quotes
<1>2. IsFeed(f)
  BY DataAssumption
<1> DEFINE n == Len(f.snapshots)
           delay == Config[pf].entryDelay
           late == {i \in DOMAIN f.snapshots : f.snapshots[i].after >= delay}
<1>3. /\ n \in Nat /\ DOMAIN f.snapshots = 1..n
      /\ \A i \in 1..n : f.snapshots[i].price \in Nat
      /\ f.snapshots # <<>> => n > 0
  <2>. DEFINE T == [after : Nat, price : Nat]
  <2>1. f.snapshots \in Seq(T) /\ \A r \in T : r.price \in Nat
    BY <1>2 DEF IsFeed
  <2>. HIDE DEF T
  <2>. QED
    BY <2>1, SequenceType
<1>4. LatestPrice(f) \in Prices
  BY <1>3 DEF LatestPrice, Prices
<1>5. late # {} => Least(late) \in 1..n
  <2>1. late \in SUBSET Nat /\ late \subseteq 1..n
    BY <1>3
  <2>. HIDE DEF late
  <2>. QED
    BY <2>1, LeastOfNaturals
<1>6. DelayedPrice(f, delay) \in Prices
  <2>1. late # {} => f.snapshots[Least(late)].price \in Nat
    BY <1>3, <1>5
  <2>2. \/ DelayedPrice(f, delay) = NoPrice
        \/ late # {} /\ DelayedPrice(f, delay) = f.snapshots[Least(late)].price
    BY DEF DelayedPrice
  <2>. QED
    BY <2>1, <2>2 DEF Prices
<1>7. Book(f) = NoPrice \/ Book(f) \in Seq(Levels)
  BY <1>2 DEF Book, IsFeed, Levels
<1>. HIDE DEF delay
<1>8. /\ q.liquidity = f.liquidity /\ q.ask = f.ask /\ q.bid = f.bid /\ q.feeRate = f.feeRate
      /\ q.latest = LatestPrice(f) /\ q.delayed = DelayedPrice(f, delay) /\ q.book = Book(f)
  BY <1>1 DEF Observation, delay
<1>. QED
  BY <1>2, <1>4, <1>6, <1>7, <1>8 DEF IsQuote, IsFeed, Prices

\* The settings that are fractions.
LEMMA FractionType ==
  ASSUME NEW pf \in Portfolios, NEW key \in Fractions PROVE Config[pf][key] \in 0..100
BY SettingsAssumption

\* Slippage is a number of cents, and not negative for an order that is not.
LEMMA SlippageType ==
  ASSUME NEW pf \in Portfolios, NEW notional \in Int, NEW liquidity \in Nat, liquidity >= MinLiquidity
  PROVE  /\ SlippagePenalty(notional, liquidity, Config[pf]) \in Int
         /\ notional >= 0 => SlippagePenalty(notional, liquidity, Config[pf]) \in Nat
<1> DEFINE k == Config[pf].slippageK
           top == Config[pf].slippageMax
           a == k * notional
           b == 10000 * liquidity
           q == a \div b
<1>1. k \in Nat
  BY SettingsAssumption
<1>2. top \in 0..100
  <2>1. "slippageMax" \in Fractions
    BY DEF Fractions
  <2>2. Config[pf]["slippageMax"] \in 0..100
    BY <2>1, FractionType
  <2>. QED
    BY <2>2
<1>3. a \in Int /\ (notional >= 0 => a >= 0)
  BY <1>1
<1>4. b \in Nat /\ b > 0
  BY DEF MinLiquidity
<1>. HIDE DEF k, top, a, b
<1>5. q \in Int /\ a < b * (q + 1)
  BY <1>3, <1>4
<1>. HIDE DEF q
<1>6. a >= 0 => q >= 0
  <2>1. q <= -1 => b * (q + 1) <= 0
    BY <1>4, <1>5
  <2>. QED
    BY <1>3, <1>4, <1>5, <2>1
<1>7. SlippagePenalty(notional, liquidity, Config[pf]) = Smaller(q, top)
  BY DEF SlippagePenalty, q, a, b, k, top
<1>. QED
  BY <1>2, <1>3, <1>5, <1>6, <1>7 DEF Smaller

\* A drift limit of the whole price would let an order through at a price of
\* nothing, of which no number of shares is enough.
DriftsBelowPrice == \A pf \in Portfolios : Config[pf].maxDriftPct \in 0..99

\* A fill has a positive price.
LEMMA FillType ==
  ASSUME DriftsBelowPrice, NEW pf \in Portfolios, NEW q, IsQuote(q), NEW notional \in Nat,
         NEW signalPrice \in 1..100
  PROVE  LET fill == ComputeFill(signalPrice, notional, q, Config[pf])
         IN  fill.filled \in BOOLEAN /\ (fill.filled => fill.price \in Nat \ {0})
<1> DEFINE cfg == Config[pf]
           reference == IF q.delayed # NoPrice THEN q.delayed ELSE q.ask
           walked == WalkTheBook(q.book, notional, cfg)
           lateness == IF q.delayed = NoPrice THEN cfg.noDelayedSnapshotPenalty ELSE 0
           slippage == SlippagePenalty(notional, q.liquidity, cfg)
           drifted == 100 * Distance(reference, signalPrice) > cfg.maxDriftPct * signalPrice
           fill == ComputeFill(signalPrice, notional, q, cfg)
<1>1. reference \in Prices
  BY DEF IsQuote
<1>2. q.book # NoPrice => walked \in (Nat \ {0}) \cup {NoPrice}
  BY WalkType DEF IsQuote
<1>3. lateness \in Nat
  <2>1. "noDelayedSnapshotPenalty" \in Fractions
    BY DEF Fractions
  <2>2. cfg["noDelayedSnapshotPenalty"] \in 0..100
    BY <2>1, FractionType
  <2>. QED
    BY <2>2
<1>4. q.liquidity # NoPrice /\ ~(q.liquidity < MinLiquidity) => slippage \in Nat
  <2> SUFFICES ASSUME q.liquidity # NoPrice, ~(q.liquidity < MinLiquidity) PROVE slippage \in Nat
    OBVIOUS
  <2>1. q.liquidity \in Nat /\ q.liquidity >= MinLiquidity /\ notional \in Int /\ notional >= 0
    BY DEF IsQuote, Prices, MinLiquidity
  <2>. QED
    BY <2>1, SlippageType
<1>5. reference # NoPrice /\ ~drifted => reference \in Nat \ {0}
  <2> SUFFICES ASSUME reference # NoPrice, ~drifted, reference = 0 PROVE FALSE
    BY <1>1 DEF Prices
  <2>1. Distance(reference, signalPrice) = signalPrice
    BY DEF Distance
  <2>2. cfg.maxDriftPct \in 0..99
    BY DEF DriftsBelowPrice
  <2>3. \A d \in 0..99, x \in 1..100 : 100 * x > d * x
    <3>. SUFFICES ASSUME NEW d \in 0..99, NEW x \in 1..100 PROVE 100 * x > d * x
      OBVIOUS
    <3>1. d * x <= 99 * x
      OBVIOUS
    <3>. QED
      BY <3>1
  <2>. QED
    BY <2>1, <2>2, <2>3
<1>6. \/ \E reason : fill = NoFill(reason)
      \/ /\ q.liquidity # NoPrice /\ ~(q.liquidity < MinLiquidity)
         /\ reference # NoPrice /\ ~drifted
         /\ \/ q.book # NoPrice /\ walked # NoPrice /\ fill = FilledAt(walked)
            \/ fill = FilledAt(reference + slippage + lateness)
  <2>. HIDE DEF reference, walked, lateness, slippage
  <2>. QED
    BY DEF ComputeFill, reference, walked, lateness, slippage
<1>. HIDE DEF reference, walked, lateness, slippage, drifted, fill
<1>. SUFFICES fill.filled \in BOOLEAN /\ (fill.filled => fill.price \in Nat \ {0})
  BY DEF fill
<1>7. CASE \E reason : fill = NoFill(reason)
  BY <1>7 DEF NoFill
<1>8. CASE q.book # NoPrice /\ walked # NoPrice /\ fill = FilledAt(walked)
  BY <1>2, <1>8 DEF FilledAt
<1>9. CASE /\ q.liquidity # NoPrice /\ ~(q.liquidity < MinLiquidity)
           /\ reference # NoPrice /\ ~drifted
           /\ fill = FilledAt(reference + slippage + lateness)
  BY <1>3, <1>4, <1>5, <1>9 DEF FilledAt
<1>. QED
  BY <1>6, <1>7, <1>8, <1>9

-----------------------------------------------------------------------------
(***************************************************************************)
(* Orders are not negative.                                                *)
(***************************************************************************)

\* With the bankroll checked against its floor no order is negative.
BankrollIsChecked == \A pf \in Portfolios : "MIN_BANKROLL_HALT" \in Config[pf].enabled

\* What the tiers give is a percentage.
LEMMA TierType ==
  ASSUME NEW pf \in Portfolios, NEW score
  PROVE  FractionFor(score, Config[pf].bands) \in 0..100
<1> DEFINE bands == Config[pf].bands
           T == [min : Nat, max : Nat, pct : 0..100]
           holding == {i \in DOMAIN bands : bands[i].min <= score /\ score < bands[i].max}
<1>1. bands \in Seq(T) /\ bands # <<>>
  BY SettingsAssumption
<1>2. \A b \in T : b.pct \in 0..100
  OBVIOUS
<1>. HIDE DEF bands, T
<1>3. Len(bands) \in Nat /\ Len(bands) > 0 /\ DOMAIN bands = 1..Len(bands)
  BY <1>1, SequenceType
<1>4. \A i \in 1..Len(bands) : bands[i].pct \in 0..100
  BY <1>1, <1>2, SequenceType
<1>5. holding # {} => Least(holding) \in 1..Len(bands)
  <2>1. holding \in SUBSET Nat /\ holding \subseteq 1..Len(bands)
    BY <1>3
  <2>. HIDE DEF holding
  <2>. QED
    BY <2>1, LeastOfNaturals
<1>6. \/ FractionFor(score, bands) = bands[1].pct
      \/ holding # {} /\ FractionFor(score, bands) = bands[Least(holding)].pct
      \/ FractionFor(score, bands) = bands[Len(bands)].pct
  BY DEF FractionFor
<1>7. 1 \in 1..Len(bands) /\ Len(bands) \in 1..Len(bands)
  BY <1>3
<1>8. FractionFor(score, bands) \in 0..100
  <2>. HIDE DEF holding
  <2>. QED
    BY <1>4, <1>5, <1>6, <1>7
<1>. QED
  BY <1>8 DEF bands

\* The fraction the sizing rule asks for.
LEMMA BaseFractionType ==
  ASSUME NEW pf \in Portfolios, NEW score \in Nat
  PROVE  BaseFractionPct(score, Config[pf]) \in Nat
<1> DEFINE cfg == Config[pf]
           multiplier == (100 * score) \div cfg.confidenceReferenceScore
           bounded == Larger(cfg.confidenceMinMultiplier,
                             Smaller(multiplier, cfg.confidenceMaxMultiplier))
<1>1. /\ cfg.confidenceReferenceScore \in Nat \ {0}
      /\ cfg.confidenceMinMultiplier \in Nat /\ cfg.confidenceMaxMultiplier \in Nat
  BY SettingsAssumption
<1>2. "fixedFractionPct" \in Fractions /\ "confidenceBaseFractionPct" \in Fractions
  BY DEF Fractions
<1>3. cfg["fixedFractionPct"] \in 0..100 /\ cfg["confidenceBaseFractionPct"] \in 0..100
  BY <1>2, FractionType
<1>4. cfg.fixedFractionPct \in Nat /\ cfg.confidenceBaseFractionPct \in Nat
  BY <1>3
<1>5. multiplier \in Int
  BY <1>1
<1>. HIDE DEF cfg, multiplier
<1>6. bounded \in Nat
  BY <1>1, <1>5 DEF Larger, Smaller
<1>. HIDE DEF bounded
<1>7. Pct(bounded, cfg.confidenceBaseFractionPct) \in Nat
  BY <1>4, <1>6, PctNat
<1>8. \/ BaseFractionPct(score, cfg) = Pct(bounded, cfg.confidenceBaseFractionPct)
      \/ BaseFractionPct(score, cfg) = cfg.fixedFractionPct
  BY DEF BaseFractionPct, bounded, multiplier
<1>9. BaseFractionPct(score, cfg) \in Nat
  BY <1>4, <1>7, <1>8
<1>. QED
  BY <1>9 DEF cfg

\* No sizer proposes a negative order out of a bankroll that is not negative.
LEMMA TargetType ==
  ASSUME NEW pf \in Portfolios, NEW bankroll \in Nat, NEW exposure \in Int, NEW score \in Nat,
         NEW pHat \in (0..100) \cup {Skip}, NEW price \in 1..100
  PROVE  TargetNotional(bankroll, exposure, score, pHat, price, Config[pf]) \in Nat \cup {Skip}
<1> DEFINE cfg == Config[pf]
<1>1. {"maxPositionPct", "maxTotalExposurePct", "maxPositionNotionalPct", "kellyFractionPct",
       "kellyFeePct"} \subseteq Fractions
  BY DEF Fractions
<1>2. /\ cfg["maxPositionPct"] \in 0..100 /\ cfg["maxTotalExposurePct"] \in 0..100
      /\ cfg["maxPositionNotionalPct"] \in 0..100 /\ cfg["kellyFractionPct"] \in 0..100
      /\ cfg["kellyFeePct"] \in 0..100
  BY <1>1, FractionType
<1>3. /\ cfg.maxPositionPct \in Nat /\ cfg.maxTotalExposurePct \in Nat
      /\ cfg.maxPositionNotionalPct \in Nat /\ cfg.kellyFractionPct \in Nat
      /\ cfg.kellyFeePct \in Nat
  BY <1>2
<1>3a. cfg.minPositionNotional \in Nat
  BY SettingsAssumption
<1>4. Pct(cfg.maxPositionPct, bankroll) \in Nat
  BY <1>3, PctNat
<1>5. SizePosition(bankroll, exposure, score, cfg) \in Nat \cup {Skip}
  <2> DEFINE a == Pct(cfg.maxTotalExposurePct, bankroll)
             b == Pct(BaseFractionPct(score, cfg), bankroll)
             c == Pct(cfg.maxPositionNotionalPct, bankroll)
             target == Smaller(Larger(0, a - exposure), Smaller(b, c))
  <2>1. a \in Nat /\ c \in Nat
    BY <1>3, PctNat
  <2>2. b \in Nat
    BY BaseFractionType, PctNat
  <2>. HIDE DEF a, b, c, cfg
  <2>3. target \in Nat
    BY <2>1, <2>2 DEF Smaller, Larger
  <2>. HIDE DEF target
  <2>4. SizePosition(bankroll, exposure, score, cfg)
          = IF target < cfg.minPositionNotional THEN Skip ELSE target
    BY DEF SizePosition, target, a, b, c
  <2>. QED
    BY <1>3a, <2>3, <2>4
<1>6. SizeTieredPosition(bankroll, score, cfg) \in Nat \cup {Skip}
  <2> DEFINE a == Pct(FractionFor(score, cfg.bands), bankroll)
  <2>1. a \in Nat
    <3>1. FractionFor(score, cfg.bands) \in 0..100
      BY TierType
    <3>2. FractionFor(score, cfg.bands) \in Nat
      BY <3>1
    <3>. QED
      BY <3>2, PctNat
  <2>. HIDE DEF a, cfg
  <2>2. \/ SizeTieredPosition(bankroll, score, cfg) = Skip
        \/ SizeTieredPosition(bankroll, score, cfg)
             = Smaller(a, Pct(cfg.maxPositionPct, bankroll))
    BY DEF SizeTieredPosition, a
  <2>. QED
    BY <1>4, <2>1, <2>2 DEF Smaller
<1>7. pHat \in 0..100 => SizeKellyPosition(bankroll, pHat, price, cfg) \in Nat \cup {Skip}
  <2>1. price \in Nat
    OBVIOUS
  <2>. HIDE DEF cfg
  <2>. QED
    BY <1>3, <2>1, KellyType
<1>. HIDE DEF cfg
<1>8. TargetNotional(bankroll, exposure, score, pHat, price, cfg) \in Nat \cup {Skip}
  BY <1>5, <1>6, <1>7 DEF TargetNotional
<1>. QED
  BY <1>8 DEF cfg

-----------------------------------------------------------------------------
(***************************************************************************)
(* What the guardrails leave of an order.                                  *)
(***************************************************************************)

\* Open positions the rules can add up.
ArePositions(positions) ==
  IsFiniteSet(DOMAIN positions) /\ \A i \in DOMAIN positions : positions[i].notional \in Int

\* The exposure of a part of the positions is a number.
LEMMA UsedType ==
  ASSUME NEW positions, ArePositions(positions), NEW ids, ids \subseteq DOMAIN positions
  PROVE  Used(positions, ids) \in Int
<1> DEFINE f == [i \in ids |-> positions[i].notional]
<1>1. IsFiniteSet(ids)
  BY FS_Subset DEF ArePositions
<1>2. IsSummable(f)
  BY <1>1 DEF IsSummable, ArePositions
<1>. HIDE DEF f
<1>3. SumFunction(f) \in Int
  BY <1>2, TotalInt
<1>. QED
  BY <1>3 DEF Used, f

\* The rules that apply to a trade.
Active(trade, cfg) ==
  {i \in DOMAIN ApplyRules :
     /\ Enabled(ApplyRules[i], cfg)
     /\ ApplyRules[i] = "MAX_CORRELATED_EXPOSURE" => trade.event # NoEvent}

\* What a rule leaves is a number; the cap on a single position leaves no less
\* than nothing.
LEMMA HeadroomType ==
  ASSUME NEW pf \in Portfolios, NEW st, st.cash \in Nat, ArePositions(st.positions), NEW trade,
         NEW i \in 1..4
  PROVE  /\ Headroom(ApplyRules[i], st, trade, Config[pf]) \in Int
         /\ i = 1 => Headroom(ApplyRules[i], st, trade, Config[pf]) >= 0
<1> DEFINE cfg == Config[pf]
           rule == ApplyRules[i]
           scope == InScope(rule, st.positions, trade)
<1>1. {"maxPositionPct", "maxExposurePct", "maxMarketExposurePct", "maxCorrelatedExposurePct"}
        \subseteq Fractions
  BY DEF Fractions
<1>2. /\ cfg["maxPositionPct"] \in 0..100 /\ cfg["maxExposurePct"] \in 0..100
      /\ cfg["maxMarketExposurePct"] \in 0..100 /\ cfg["maxCorrelatedExposurePct"] \in 0..100
  BY <1>1, FractionType
<1>3. CapPct(rule, cfg) \in Nat
  BY <1>2 DEF CapPct, ApplyRules
<1>4. Pct(CapPct(rule, cfg), st.cash) \in Nat
  BY <1>3, PctNat
<1>5. scope \subseteq DOMAIN st.positions /\ (i = 1 => scope = {})
  BY DEF InScope, ApplyRules
<1>6. Used(st.positions, scope) \in Int
  BY <1>5, UsedType
<1>7. i = 1 => Used(st.positions, scope) = 0
  BY <1>5, TotalEmpty DEF Used
<1>. HIDE DEF cfg, rule, scope
<1>8. Headroom(rule, st, trade, cfg) = Pct(CapPct(rule, cfg), st.cash) - Used(st.positions, scope)
  BY DEF Headroom, scope
<1>9. Headroom(rule, st, trade, cfg) \in Int /\ (i = 1 => Headroom(rule, st, trade, cfg) >= 0)
  BY <1>4, <1>6, <1>7, <1>8
<1>. QED
  BY <1>9 DEF rule, cfg

\* An order that is not denied is within what every rule that applies leaves.
LEMMA ApplyIsWithinRooms ==
  ASSUME NEW pf \in Portfolios, NEW st, st.cash \in Nat, ArePositions(st.positions),
         NEW trade, trade.notional \in Nat,
         Apply(st, trade, Config[pf]).action # "DENY"
  PROVE  /\ Apply(st, trade, Config[pf]).notional \in Nat
         /\ \A i \in Active(trade, Config[pf]) :
              Apply(st, trade, Config[pf]).notional <= Headroom(ApplyRules[i], st, trade, Config[pf])
<1> DEFINE cfg == Config[pf]
           active == Active(trade, cfg)
           room(i) == Headroom(ApplyRules[i], st, trade, cfg)
           denying == {i \in active : ApplyRules[i] # "MAX_POSITION_SIZE" /\ room(i) <= 0}
           resizing == {i \in active : trade.notional > room(i)}
           rooms == {room(i) : i \in resizing}
           risk == Apply(st, trade, cfg)
<1>1. /\ active \subseteq 1..4
      /\ \A i \in 1..4 : ApplyRules[i] = "MAX_POSITION_SIZE" <=> i = 1
  BY DEF Active, ApplyRules
<1>2. \A i \in active : room(i) \in Int /\ (i = 1 => room(i) >= 0)
  BY <1>1, HeadroomType
<1>3. risk = CASE denying # {} ->
                    [action |-> "DENY", rule |-> ApplyRules[Least(denying)], notional |-> 0]
               [] denying = {} /\ resizing # {} ->
                    [action |-> "RESIZE", rule |-> "RESIZE", notional |-> Least(rooms)]
               [] OTHER -> [action |-> "ALLOW", rule |-> "ALLOW", notional |-> trade.notional]
  BY DEF Apply, Active
<1>4. denying = {}
  <2>. HIDE DEF denying, resizing, rooms
  <2>. QED
    BY <1>3
<1>5. \A i \in active : room(i) \in Nat
  BY <1>1, <1>2, <1>4
<1>. HIDE DEF cfg, active, room, risk
<1>6. CASE resizing # {}
  <2>1. rooms \in SUBSET Nat /\ rooms # {}
    BY <1>5, <1>6
  <2>2. risk.notional = Least(rooms)
    <3>. HIDE DEF denying, resizing, rooms
    <3>. QED
      BY <1>3, <1>4, <1>6
  <2>3. Least(rooms) \in rooms /\ \A y \in rooms : Least(rooms) <= y
    <3>. HIDE DEF rooms
    <3>. QED
      BY <2>1, LeastOfNaturals
  <2>4. Least(rooms) \in Nat
    BY <2>1, <2>3
  <2>5. PICK k \in resizing : Least(rooms) = room(k)
    BY <2>3
  <2>6. \A i \in active : Least(rooms) <= room(i)
    <3>. TAKE i \in active
    <3>1. CASE i \in resizing
      BY <2>3, <3>1
    <3>2. CASE i \notin resizing
      BY <1>5, <2>4, <2>5, <3>2
    <3>. QED
      BY <3>1, <3>2
  <2>. QED
    BY <2>2, <2>4, <2>6 DEF cfg, active, room, risk
<1>7. CASE resizing = {}
  <2>1. risk.notional = trade.notional
    <3>. HIDE DEF denying, resizing, rooms
    <3>. QED
      BY <1>3, <1>4, <1>7
  <2>2. \A i \in active : trade.notional <= room(i)
    BY <1>5, <1>7
  <2>. QED
    BY <2>1, <2>2 DEF cfg, active, room, risk
<1>. QED
  BY <1>6, <1>7

-----------------------------------------------------------------------------
(***************************************************************************)
(* Rates are percentages.                                                  *)
(***************************************************************************)
Rates == [key : Seq(Nat), pHat : 0..100]

\* A band has a number.
LEMMA BandType ==
  ASSUME NEW S, NEW bands \in Seq(S), NEW value
  PROVE  BandIndex(value, bands) \in Nat
<1> DEFINE holding == {i \in DOMAIN bands : bands[i].min <= value /\ value < bands[i].max}
<1>1. holding # {} => Least(holding) \in Nat
  <2>1. holding \in SUBSET Nat
    BY SequenceType
  <2>. HIDE DEF holding
  <2>. QED
    BY <2>1, LeastOfNaturals
<1>2. \/ BandIndex(value, bands) = 0
      \/ holding # {} /\ BandIndex(value, bands) = Least(holding)
      \/ BandIndex(value, bands) = Len(bands)
  BY DEF BandIndex
<1>. QED
  <2>. HIDE DEF holding
  <2>1. Len(bands) \in Nat
    BY SequenceType
  <2>. QED
    BY <1>1, <1>2, <2>1

\* A share of a finite set is a percentage.
LEMMA ShareType ==
  ASSUME NEW S, IsFiniteSet(S), S # {}, NEW T, T \subseteq S
  PROVE  (100 * Cardinality(T)) \div Cardinality(S) \in 0..100
<1> DEFINE a == Cardinality(T)
           b == Cardinality(S)
           q == (100 * a) \div b
<1>1. a \in Nat /\ b \in Nat /\ a <= b /\ b # 0
  BY FS_Subset, FS_CardinalityType, FS_EmptySet
<1>. HIDE DEF a, b
<1>2. q \in Int /\ b * q <= 100 * a /\ 100 * a < b * (q + 1)
  BY <1>1
<1>. HIDE DEF q
<1>3. q <= -1 => b * (q + 1) <= 0
  BY <1>1, <1>2
<1>4. q >= 101 => b * q >= 101 * b
  BY <1>1, <1>2
<1>5. q \in 0..100
  BY <1>1, <1>2, <1>3, <1>4
<1>. QED
  BY <1>5 DEF q, a, b

\* The rates of the buckets are percentages.
LEMMA BucketsType ==
  ASSUME NEW records, IsFiniteSet(DOMAIN records)
  PROVE  TrustedBuckets(records, CalibrationConfig) \subseteq Rates
<1> DEFINE cal == CalibrationConfig
           keyOf(i) == BucketKey(records[i].score, records[i].price, cal)
           bucket(key) == {i \in DOMAIN records : keyOf(i) = key}
           won(key) == {i \in bucket(key) : records[i].won}
<1>1. ASSUME NEW i \in DOMAIN records PROVE keyOf(i) \in Seq(Nat)
  <2>1. /\ BandIndex(records[i].score, cal.scoreBands) \in Nat
        /\ BandIndex(records[i].price, cal.priceBands) \in Nat
    <3> DEFINE S == [min : Nat, max : Nat]
    <3>1. cal.scoreBands \in Seq(S) /\ cal.priceBands \in Seq(S)
      BY DataAssumption
    <3>. HIDE DEF S, cal
    <3>. QED
      BY <3>1, BandType
  <2>. QED
    BY <2>1 DEF BucketKey
<1>2. ASSUME NEW b \in TrustedBuckets(records, cal) PROVE b \in Rates
  <2>1. PICK i \in DOMAIN records :
          b = [key |-> keyOf(i),
               pHat |-> (100 * Cardinality(won(keyOf(i)))) \div Cardinality(bucket(keyOf(i)))]
    BY DEF TrustedBuckets
  <2> DEFINE k == keyOf(i)
  <2>2. IsFiniteSet(bucket(k)) /\ i \in bucket(k) /\ won(k) \subseteq bucket(k)
    BY FS_Subset
  <2>3. (100 * Cardinality(won(k))) \div Cardinality(bucket(k)) \in 0..100
    <3>1. bucket(k) # {}
      BY <2>2
    <3>. HIDE DEF bucket, won, k
    <3>. QED
      BY <2>2, <3>1, ShareType
  <2>4. k \in Seq(Nat)
    BY <1>1
  <2>. HIDE DEF keyOf, won, bucket
  <2>. QED
    BY <2>1, <2>3, <2>4 DEF Rates
<1>. QED
  BY <1>2

\* The rate of a signal is a percentage, or none.
LEMMA PHatType ==
  ASSUME NEW buckets \in SUBSET Rates, NEW score, NEW price
  PROVE  PHat(buckets, score, price, CalibrationConfig) \in (0..100) \cup {Skip}
<1> DEFINE mine == {b \in buckets : b.key = BucketKey(score, price, CalibrationConfig)}
<1>1. mine # {} => (CHOOSE b \in mine : TRUE) \in Rates
  <2>1. mine # {} => (CHOOSE b \in mine : TRUE) \in mine
    OBVIOUS
  <2>. QED
    BY <2>1
<1>2. \A b \in Rates : b.pHat \in 0..100
  BY DEF Rates
<1>3. \/ PHat(buckets, score, price, CalibrationConfig) = Skip
      \/ mine # {} /\ PHat(buckets, score, price, CalibrationConfig) = (CHOOSE b \in mine : TRUE).pHat
  BY DEF PHat
<1>. HIDE DEF mine
<1>. QED
  BY <1>1, <1>2, <1>3

-----------------------------------------------------------------------------
(***************************************************************************)
(* The rows of decisions.                                                  *)
(***************************************************************************)

\* The order the sizer proposes for a signal, as the guardrails see it.
Target(t, s) ==
  TargetNotional(t.cash[t.pf], Exposure(OpenPositions(t)), t.todo[s],
                 PHat(t.buckets, t.todo[s], SignalPrice[s], CalibrationConfig),
                 SignalPrice[s], Config[t.pf])

Candidate(t, s) ==
  [market |-> MarketOf[s], event |-> EventOf[MarketOf[s]], notional |-> Target(t, s)]

\* The gate stops a signal, or passes on what pre-check, sizer and guardrails
\* leave of it.
LEMMA GateCases ==
  ASSUME NEW t, NEW s
  PROVE  LET risk == Apply(RiskState(t), Candidate(t, s), Config[t.pf])
         IN  \/ Gate(t, s).stage \in {"RISK", "SIZING"} /\ Gate(t, s).notional = 0
             \/ /\ PreCheck(RiskState(t), Config[t.pf]) = "ALLOW"
                /\ Target(t, s) # Skip
                /\ risk.action # "DENY"
                /\ Gate(t, s).stage = "FILL" /\ Gate(t, s).notional = risk.notional
<1>1. RiskState(t).cash = t.cash[t.pf] /\ RiskState(t).positions = OpenPositions(t)
  BY DEF RiskState
<1>. QED
  BY <1>1 DEF Gate, Candidate, Target

\* The rows of a table that is typed, and the positions among them.
LEMMA TypedTable ==
  ASSUME NEW rs \in Seq(RowType)
  PROVE  IsTable(rs) /\ \A i \in DOMAIN rs : rs[i] \in RowType
<1>. DEFINE S == RowType
<1>. HIDE DEF S
<1>1. rs \in Seq(S)
  BY DEF S
<1>2. Len(rs) \in Nat /\ DOMAIN rs = 1..Len(rs) /\ \A i \in 1..Len(rs) : rs[i] \in S
  BY <1>1, SequenceType
<1>3. rs \in [1..Len(rs) -> S]
  BY <1>1, LenProperties
<1>4. IsTable(rs)
  BY <1>2, <1>3, FunctionIsTable
<1>. QED
  BY <1>2, <1>4 DEF S

\* What a row cost and is worth is a number.
LEMMA CostType ==
  ASSUME NEW r \in RowType PROVE Cost(r) \in Int
<1>1. r.price \in Int /\ r.size \in Int
  BY DEF RowType
<1>2. \A p, z \in Int : 100 * p * z \in Int
  OBVIOUS
<1>. QED
  BY <1>1, <1>2 DEF Cost, Money

\* The fields of a transaction.
LEMMA TxnFieldTypes ==
  ASSUME NEW t \in TxnType
  PROVE  /\ t.at \in 0..MaxTime /\ t.stop \in BOOLEAN /\ t.left \in SUBSET Portfolios
         /\ t.pf \in Portfolios /\ t.rows \in Seq(RowType) /\ t.cash \in [Portfolios -> Int]
         /\ t.todo \in [Signals -> 0..MaxScore] /\ t.open \in SUBSET Nat
         /\ t.buckets \in SUBSET Rates /\ t.base \in Nat
<1>. DEFINE R == Seq(RowType)
<1>. HIDE DEF R
<1>1. t \in [at : 0..MaxTime, stop : BOOLEAN, left : SUBSET Portfolios,
             phase : {"pick", "entries", "exits"}, pf : Portfolios, base : Nat, rows : R,
             cash : [Portfolios -> Int], todo : [Signals -> 0..MaxScore],
             open : SUBSET Nat, dayStart : Int, realizedToday : Int,
             buckets : SUBSET Rates]
  BY DEF TxnType, R, Rates
<1>. QED
  BY <1>1 DEF R

\* The positions the guardrails see can be added up.
LEMMA PositionsType ==
  ASSUME NEW t \in TxnType PROVE ArePositions(OpenPositions(t))
<1>1. t.rows \in Seq(RowType)
  BY TxnFieldTypes
<1>2. IsTable(t.rows) /\ \A i \in DOMAIN t.rows : t.rows[i] \in RowType
  BY <1>1, TypedTable
<1> DEFINE ids == OfPortfolio(t.rows, DOMAIN t.rows, t.pf, "OPEN")
<1>3. IsFiniteSet(ids)
  BY <1>2, OpenRowsFinite
<1>4. \A i \in ids : i \in DOMAIN t.rows
  BY DEF OfPortfolio
<1>. HIDE DEF ids
<1>5. \A i \in ids : Cost(t.rows[i]) \in Int
  BY <1>2, <1>4, CostType
<1>6. DOMAIN OpenPositions(t) = ids /\ \A i \in ids : OpenPositions(t)[i].notional = Cost(t.rows[i])
  BY DEF OpenPositions, ids
<1>. QED
  BY <1>3, <1>5, <1>6 DEF ArePositions

\* A portfolio that passes the pre-check has a bankroll that is not negative.
LEMMA BankrollType ==
  ASSUME BankrollIsChecked, NEW t \in TxnType, PreCheck(RiskState(t), Config[t.pf]) = "ALLOW"
  PROVE  t.cash[t.pf] \in Nat
<1> DEFINE cfg == Config[t.pf]
           st == RiskState(t)
<1>1. t.pf \in Portfolios /\ t.cash[t.pf] \in Int
  BY TxnFieldTypes
<1>2. 4 \in 1..4 /\ PreCheckRules[4] = "MIN_BANKROLL_HALT"
  BY DEF PreCheckRules
<1>3. Enabled(PreCheckRules[4], cfg)
  BY <1>1, <1>2 DEF Enabled, BankrollIsChecked
<1>4. ~Breaches(PreCheckRules[4], st, cfg)
  BY <1>2, <1>3, PreCheckAllows
<1>5. ~(st.cash < Pct(cfg.minBankrollPct, st.starting))
  BY <1>2, <1>4 DEF Breaches
<1>6. st.cash = t.cash[t.pf] /\ st.starting = StartingBankroll
  BY DEF RiskState
<1>7. Pct(cfg.minBankrollPct, StartingBankroll) \in Nat
  <2>1. "minBankrollPct" \in Fractions
    BY DEF Fractions
  <2>2. cfg["minBankrollPct"] \in 0..100
    BY <1>1, <2>1, FractionType
  <2>3. cfg.minBankrollPct \in Nat
    BY <2>2
  <2>. QED
    BY <2>3, PctNat, ConfigAssumption
<1>. HIDE DEF cfg, st
<1>. QED
  BY <1>1, <1>5, <1>6, <1>7

\* A signal the gate lets through is ordered within what every rule leaves.
LEMMA GateFill ==
  ASSUME BankrollIsChecked, NEW t \in TxnType, NEW s \in Signals, Gate(t, s).stage = "FILL"
  PROVE  /\ t.cash[t.pf] \in Nat
         /\ Gate(t, s).notional \in Nat
         /\ \A i \in Active(Candidate(t, s), Config[t.pf]) :
              Gate(t, s).notional
                <= Headroom(ApplyRules[i], RiskState(t), Candidate(t, s), Config[t.pf])
<1> DEFINE cfg == Config[t.pf]
           st == RiskState(t)
           trade == Candidate(t, s)
<1>1. /\ PreCheck(st, cfg) = "ALLOW" /\ Target(t, s) # Skip
      /\ Apply(st, trade, cfg).action # "DENY"
      /\ Gate(t, s).notional = Apply(st, trade, cfg).notional
  BY GateCases
<1>2. t.cash[t.pf] \in Nat
  BY <1>1, BankrollType
<1>3. st.cash = t.cash[t.pf] /\ st.positions = OpenPositions(t)
  BY DEF RiskState
<1>4. /\ t.pf \in Portfolios /\ t.todo[s] \in 0..MaxScore /\ t.buckets \in SUBSET Rates
      /\ SignalPrice[s] \in 1..100
  BY TxnFieldTypes, DataAssumption
<1>5. t.todo[s] \in Nat
  BY <1>4, DataAssumption
<1>6. ArePositions(OpenPositions(t))
  BY PositionsType
<1>7. Exposure(OpenPositions(t)) \in Int
  BY <1>6, UsedType DEF Exposure
<1>8. PHat(t.buckets, t.todo[s], SignalPrice[s], CalibrationConfig) \in (0..100) \cup {Skip}
  BY <1>4, PHatType
<1>9. Target(t, s) \in Nat \cup {Skip}
  BY <1>2, <1>4, <1>5, <1>7, <1>8, TargetType DEF Target
<1>10. trade.notional \in Nat
  BY <1>1, <1>9 DEF Candidate
<1>. HIDE DEF trade, st
<1>11. /\ Apply(st, trade, cfg).notional \in Nat
       /\ \A i \in Active(trade, cfg) :
              Apply(st, trade, cfg).notional <= Headroom(ApplyRules[i], st, trade, cfg)
  BY <1>1, <1>2, <1>3, <1>4, <1>6, <1>10, ApplyIsWithinRooms
<1>. QED
  BY <1>1, <1>2, <1>11 DEF trade, st

\* The gate names a stage and a notional that is not negative.
LEMMA GateType ==
  ASSUME BankrollIsChecked, NEW t \in TxnType, NEW s \in Signals
  PROVE  Gate(t, s).stage \in {"RISK", "SIZING", "FILL"} /\ Gate(t, s).notional \in Nat
<1>1. \/ Gate(t, s).stage \in {"RISK", "SIZING"} /\ Gate(t, s).notional = 0
      \/ Gate(t, s).stage = "FILL"
  BY GateCases
<1>. QED
  BY <1>1, GateFill

\* The fee rate of a trade is a number.
LEMMA FeeRateType ==
  ASSUME NEW pf \in Portfolios, NEW q, IsQuote(q) PROVE FeeRate(q, Config[pf]) \in Int
<1>1. "feeRate" \in Fractions
  BY DEF Fractions
<1>2. Config[pf]["feeRate"] \in 0..100
  BY <1>1, FractionType
<1>3. Config[pf].feeRate \in Int
  BY <1>2
<1>4. q.feeRate # NoPrice => q.feeRate \in Int
  BY DEF IsQuote, Prices
<1>. QED
  BY <1>3, <1>4 DEF FeeRate

\* A number of whole shares for a positive price.
LEMMA SizeType ==
  ASSUME NEW notional \in Nat, NEW price \in Nat \ {0}
  PROVE  /\ notional \div (100 * price) \in Nat
         /\ Money(price, notional \div (100 * price)) <= notional
<1> DEFINE b == 100 * price
           size == notional \div b
<1>1. b \in Nat /\ b > 0
  OBVIOUS
<1>2. Money(price, size) = b * size
  <2>. HIDE DEF size
  <2>. QED
    BY DEF Money
<1>. HIDE DEF b
<1>3. size \in Int /\ b * size <= notional /\ notional < b * (size + 1)
  BY <1>1
<1>. HIDE DEF size
<1>4. size <= -1 => b * (size + 1) <= 0
  BY <1>1, <1>3
<1>5. size \in Nat /\ Money(price, size) <= notional
  BY <1>1, <1>2, <1>3, <1>4
<1>. QED
  BY <1>5 DEF size, b

\* The row of a signal that is passed up.
LEMMA MissedType ==
  ASSUME NEW pf \in Portfolios, NEW s \in Signals, NEW why \in Reasons
  PROVE  LET row == Missed(pf, s, why)
         IN  /\ row \in RowType /\ row.status = "MISSED" /\ row.price = 0
             /\ row.size = 0 /\ row.entryFee = 0 /\ row.pnl = 0
<1>1. 0 \in 0..MaxTime
  BY DataAssumption
<1>. QED
  BY <1>1 DEF Missed, RowType

\* The row of a trade that is entered.
LEMMA OpenedType ==
  ASSUME NEW pf \in Portfolios, NEW s \in Signals, NEW price \in Int, NEW size \in Int,
         NEW fee \in Int, NEW at \in 0..MaxTime
  PROVE  LET row == Opened(pf, s, price, size, fee, at)
         IN  /\ row \in RowType /\ row.status = "OPEN" /\ row.price = price
             /\ row.size = size /\ row.pnl = 0
<1> DEFINE old == Missed(pf, s, "")
           row == Opened(pf, s, price, size, fee, at)
<1>1. "" \in Reasons /\ 0 \in 0..MaxTime
  BY DataAssumption DEF Reasons
<1>2. old \in RowType /\ old.pnl = 0
  BY <1>1, MissedType
<1>. HIDE DEF old
<1>3. row = [old EXCEPT !.status = "OPEN", !.price = price, !.size = size,
                        !.entryFee = fee, !.entryAt = at]
  BY DEF Opened, old
<1>4. row \in RowType
  BY <1>2, <1>3 DEF RowType
<1>5. row.status = "OPEN" /\ row.price = price /\ row.size = size /\ row.pnl = 0
  BY <1>2, <1>3 DEF RowType
<1>. HIDE DEF row
<1>6. /\ row \in RowType /\ row.status = "OPEN" /\ row.price = price
      /\ row.size = size /\ row.pnl = 0
  BY <1>4, <1>5
<1>. QED
  BY <1>6 DEF row

\* The row of a decision is typed; what an open one cost is within its order.
LEMMA DecisionType ==
  ASSUME DriftsBelowPrice, BankrollIsChecked, NEW t \in TxnType, NEW s \in Signals,
         NEW q \in Quotes[t.pf], NEW score
  PROVE  LET gate == Gate(t, s)
             fill == ComputeFill(SignalPrice[s], gate.notional, q, Config[t.pf])
             row == Decision(t, s, score, q, gate, fill)
         IN  /\ row \in RowType
             /\ row.status = "OPEN" => Cost(row) <= gate.notional
             /\ row.status # "OPEN" => Cost(row) = 0 /\ row.entryFee = 0
             /\ row.pnl = 0
<1> DEFINE gate == Gate(t, s)
           fill == ComputeFill(SignalPrice[s], gate.notional, q, Config[t.pf])
           row == Decision(t, s, score, q, gate, fill)
           size == gate.notional \div (100 * fill.price)
           fee == TakerFee(fill.price, size, FeeRate(q, Config[t.pf]))
<1>1. t.pf \in Portfolios /\ t.at \in 0..MaxTime /\ 0 \in 0..MaxTime
  BY TxnFieldTypes, DataAssumption
<1>2. IsQuote(q)
  BY <1>1, QuoteType
<1>3. gate.stage \in {"RISK", "SIZING", "FILL"} /\ gate.notional \in Nat
  BY GateType
<1>4. fill.filled => fill.price \in Nat \ {0}
  BY <1>1, <1>2, <1>3, FillType, DataAssumption
<1>5. FeeRate(q, Config[t.pf]) \in Int
  BY <1>1, <1>2, FeeRateType
<1>6. fill.filled => /\ size \in Int /\ Money(fill.price, size) <= gate.notional
                     /\ fee \in Int
  <2>. HIDE DEF gate, fill
  <2> SUFFICES ASSUME fill.filled
               PROVE  size \in Int /\ Money(fill.price, size) <= gate.notional /\ fee \in Int
    OBVIOUS
  <2>1. size \in Nat /\ Money(fill.price, size) <= gate.notional
    BY <1>3, <1>4, SizeType
  <2>. HIDE DEF size
  <2>2. fill.price \in Int /\ size \in Int
    BY <1>4, <2>1
  <2>3. fee \in Int
    BY <1>5, <2>2, TakerFeeType
  <2>. QED
    BY <2>1, <2>2, <2>3
<1>7. \/ \E why \in {"ENTRY_FILTER", gate.stage} : row = Missed(t.pf, s, why)
      \/ fill.filled /\ row = Opened(t.pf, s, fill.price, size, fee, t.at)
  <2>. HIDE DEF gate, fill, size, fee
  <2>. QED
    BY DEF Decision, size, fee
<1>. HIDE DEF gate, fill, size, fee, row
<1>8. ASSUME NEW why \in {"ENTRY_FILTER", gate.stage}, row = Missed(t.pf, s, why)
      PROVE  /\ row \in RowType /\ row.status = "MISSED" /\ row.price = 0 /\ row.size = 0
             /\ row.entryFee = 0 /\ row.pnl = 0
  <2>1. why \in Reasons
    BY <1>3 DEF Reasons
  <2>. QED
    BY <1>1, <1>8, <2>1, MissedType
<1>9. ASSUME fill.filled, row = Opened(t.pf, s, fill.price, size, fee, t.at)
      PROVE  /\ row \in RowType /\ row.status = "OPEN" /\ row.price = fill.price
             /\ row.size = size /\ row.pnl = 0
  <2>1. "" \in Reasons
    BY DEF Reasons
  <2> DEFINE price == fill.price
  <2>2. price \in Int /\ size \in Int /\ fee \in Int /\ row = Opened(t.pf, s, price, size, fee, t.at)
    BY <1>4, <1>6, <1>9
  <2>. HIDE DEF price
  <2>3. LET new == Opened(t.pf, s, price, size, fee, t.at)
        IN  /\ new \in RowType /\ new.status = "OPEN" /\ new.price = price
            /\ new.size = size /\ new.pnl = 0
    BY <1>1, <2>2, OpenedType
  <2>. QED
    BY <2>2, <2>3 DEF price
<1>10. Money(0, 0) = 0
  BY DEF Money
<1>11. /\ row \in RowType
       /\ row.status = "OPEN" => Cost(row) <= gate.notional
       /\ row.status # "OPEN" => Cost(row) = 0 /\ row.entryFee = 0
       /\ row.pnl = 0
  BY <1>6, <1>7, <1>8, <1>9, <1>10 DEF Cost
<1>. QED
  BY <1>11 DEF row, fill, gate

-----------------------------------------------------------------------------
(***************************************************************************)
(* The rows of exits.                                                      *)
(***************************************************************************)

\* The exit ladder names one of the reasons, or lets the trade stay.
LEMMA ReasonType ==
  ASSUME NEW entry, NEW mark, NEW pessimistic, NEW held, NEW signalAge, NEW resolution, NEW cfg
  PROVE  CheckExit(entry, mark, pessimistic, held, signalAge, resolution, cfg)
           \in (Reasons \ {""}) \cup {"stay"}
BY DEF CheckExit, CheckScalpExit, Reasons

\* The bid less slippage is a number, or not to be had.
LEMMA PessimisticType ==
  ASSUME NEW pf \in Portfolios, NEW q, IsQuote(q), NEW size \in Int,
         NEW mark \in Int \cup {NoPrice}
  PROVE  PessimisticExitPrice(size, mark, q, Config[pf]) \in Int \cup {NoPrice}
<1> DEFINE cfg == Config[pf]
           reference == IF q.bid # NoPrice THEN q.bid ELSE mark
           worth == 100 * size * reference
           slippage == SlippagePenalty(worth, q.liquidity, cfg)
<1>1. reference \in Int \cup {NoPrice}
  BY DEF IsQuote, Prices
<1>2. reference # NoPrice => worth \in Int
  <2>. HIDE DEF reference
  <2>1. \A a, b \in Int : 100 * a * b \in Int
    OBVIOUS
  <2>. QED
    BY <1>1, <2>1
<1>3. reference # NoPrice /\ q.liquidity # NoPrice /\ ~(q.liquidity < MinLiquidity)
        => slippage \in Int
  <2> SUFFICES ASSUME reference # NoPrice, q.liquidity # NoPrice, ~(q.liquidity < MinLiquidity)
               PROVE  slippage \in Int
    OBVIOUS
  <2>1. q.liquidity \in Nat /\ q.liquidity >= MinLiquidity
    BY DEF IsQuote, Prices, MinLiquidity
  <2>2. worth \in Int
    BY <1>2
  <2>. HIDE DEF worth
  <2>. QED
    BY <2>1, <2>2, SlippageType
<1>. HIDE DEF reference, slippage
<1>4. \/ PessimisticExitPrice(size, mark, q, cfg) = NoPrice
      \/ /\ reference # NoPrice /\ q.liquidity # NoPrice /\ ~(q.liquidity < MinLiquidity)
         /\ PessimisticExitPrice(size, mark, q, cfg) = reference - slippage
  BY DEF PessimisticExitPrice, reference, slippage
<1>. QED
  BY <1>1, <1>3, <1>4

\* A trade leaves at a price.
LEMMA ExitPriceType ==
  ASSUME NEW reason, NEW resolution, NEW entry \in Int, NEW mark \in Int \cup {NoPrice},
         NEW pessimistic \in Int \cup {NoPrice}
  PROVE  ExitPrice(reason, resolution, entry, mark, pessimistic) \in Int
BY DEF ExitPrice

\* What a row that leaves is typed as, and what it realizes.
LEMMA ClosedType ==
  ASSUME NEW old \in RowType, NEW price \in Int, NEW fee \in Int, NEW reason \in Reasons,
         NEW at \in 0..MaxTime
  PROVE  LET new == Closed(old, price, fee, reason, at)
         IN  /\ new \in RowType /\ new.status = "CLOSED"
             /\ new.pnl = Money(price, old.size) - fee - (Cost(old) + old.entryFee)
             /\ Money(price, old.size) - fee \in Int
<1> DEFINE worth == Money(price, old.size)
           cost == Cost(old)
           pnl == worth - cost - old.entryFee - fee
           new == Closed(old, price, fee, reason, at)
<1>1. cost \in Int /\ old.entryFee \in Int /\ old.size \in Int
  BY CostType DEF RowType
<1>2. worth \in Int
  <2>1. \A a, b \in Int : 100 * a * b \in Int
    OBVIOUS
  <2>. QED
    BY <1>1, <2>1 DEF Money
<1>. HIDE DEF worth, cost
<1>3. pnl \in Int /\ pnl = worth - fee - (cost + old.entryFee)
  BY <1>1, <1>2
<1>4. new = [old EXCEPT !.status = "CLOSED", !.exitPrice = price, !.exitFee = fee,
                        !.pnl = pnl, !.reason = reason, !.exitAt = at]
  BY DEF Closed, worth, cost
<1>. HIDE DEF pnl, new
<1>5. new \in RowType
  BY <1>3, <1>4 DEF RowType
<1>6. new.status = "CLOSED" /\ new.pnl = pnl
  BY <1>4 DEF RowType
<1>7. /\ new \in RowType /\ new.status = "CLOSED"
      /\ new.pnl = worth - fee - (cost + old.entryFee)
      /\ worth - fee \in Int
  BY <1>2, <1>3, <1>5, <1>6
<1>. QED
  BY <1>7 DEF new, worth, cost

\* An exit check keeps an open row typed; it credits nothing for one that
\* stays, and for one that leaves what it realizes and had cost.
LEMMA ExitCheckType ==
  ASSUME NEW t \in TxnType, NEW row \in RowType, row.status = "OPEN", NEW q \in Quotes[t.pf]
  PROVE  LET new == ExitCheck(t, row, q).row
             credit == ExitCheck(t, row, q).credit
         IN  /\ new \in RowType /\ credit \in Int
             /\ \/ /\ new.status = "OPEN" /\ credit = 0
                   /\ new.price = row.price /\ new.size = row.size /\ new.entryFee = row.entryFee
                \/ new.status = "CLOSED" /\ new.pnl = credit - (Cost(row) + row.entryFee)
<1> DEFINE cfg == Config[t.pf]
           market == MarketOf[row.sig]
           mark == IF q.latest # NoPrice THEN q.latest ELSE row.mark
           pessimistic == PessimisticExitPrice(row.size, mark, q, cfg)
           resolution == DetectResolution(closed[market], ResolutionPrice(row.sig, q),
                                          cfg.resolutionThreshold)
           ladder == CheckExit(row.price, mark, pessimistic, t.at - row.entryAt,
                               t.at - sig[row.sig].born, resolution, cfg)
           reason == IF resolution = "AMBIGUOUS" THEN "stay" ELSE ladder
           price == ExitPrice(reason, resolution, row.price, mark, pessimistic)
           fee == IF reason = "market_resolved" THEN 0 ELSE TakerFee(price, row.size, FeeRate(q, cfg))
           marked == [row EXCEPT !.mark = mark]
           check == ExitCheck(t, row, q)
<1>1. t.pf \in Portfolios /\ t.at \in 0..MaxTime
  BY TxnFieldTypes
<1>2. IsQuote(q)
  BY <1>1, QuoteType
<1>3. row.price \in Int /\ row.size \in Int /\ row.mark \in Int \cup {NoPrice}
  BY DEF RowType
<1>4. mark \in Int \cup {NoPrice}
  BY <1>2, <1>3 DEF IsQuote, Prices
<1>5. marked \in RowType /\ marked.status = "OPEN" /\ marked.price = row.price
        /\ marked.size = row.size /\ marked.entryFee = row.entryFee
  <2>. HIDE DEF mark
  <2>. QED
    BY <1>4 DEF RowType
<1>. HIDE DEF mark
<1>6. pessimistic \in Int \cup {NoPrice}
  BY <1>1, <1>2, <1>3, <1>4, PessimisticType
<1>. HIDE DEF pessimistic, resolution
<1>7. reason = "stay" \/ reason \in Reasons
  BY ReasonType
<1>. HIDE DEF reason
<1>8. price \in Int
  BY <1>3, <1>4, <1>6, ExitPriceType
<1>. HIDE DEF price
<1>9. fee \in Int
  <2>1. FeeRate(q, cfg) \in Int
    BY <1>1, <1>2, FeeRateType
  <2>2. TakerFee(price, row.size, FeeRate(q, cfg)) \in Int
    BY <1>3, <1>8, <2>1, TakerFeeType
  <2>. QED
    BY <2>2
<1>. HIDE DEF fee, marked
<1>10. check = IF reason = "stay"
                 THEN [row |-> marked, credit |-> 0]
                 ELSE [row |-> Closed(marked, price, fee, reason, t.at),
                       credit |-> Money(price, row.size) - fee]
  BY DEF ExitCheck, marked, fee, price, reason, resolution, pessimistic, mark
<1>. HIDE DEF check
<1>11. Cost(marked) = Cost(row)
  BY <1>5 DEF Cost
<1>12. /\ check.row \in RowType /\ check.credit \in Int
       /\ \/ /\ check.row.status = "OPEN" /\ check.credit = 0 /\ check.row.price = row.price
             /\ check.row.size = row.size /\ check.row.entryFee = row.entryFee
          \/ check.row.status = "CLOSED" /\ check.row.pnl = check.credit - (Cost(row) + row.entryFee)
  <2>1. CASE reason = "stay"
    BY <1>5, <1>10, <2>1
  <2>2. CASE reason # "stay"
    <3>1. LET new == Closed(marked, price, fee, reason, t.at)
          IN  /\ new \in RowType /\ new.status = "CLOSED"
              /\ new.pnl = Money(price, marked.size) - fee - (Cost(marked) + marked.entryFee)
              /\ Money(price, marked.size) - fee \in Int
      BY <1>1, <1>5, <1>7, <1>8, <1>9, <2>2, ClosedType
    <3>2. check.row = Closed(marked, price, fee, reason, t.at)
            /\ check.credit = Money(price, row.size) - fee
      BY <1>10, <2>2
    <3>. QED
      BY <1>5, <1>11, <3>1, <3>2
  <2>. QED
    BY <2>1, <2>2
<1>. QED
  BY <1>12 DEF check

-----------------------------------------------------------------------------
(***************************************************************************)
(* Every table and every transaction stays typed.                          *)
(***************************************************************************)

\* What a portfolio's day is read from is typed.
LEMMA DayType ==
  ASSUME NEW t \in TxnType, Visible(t) \subseteq DOMAIN t.rows, NEW pf \in Portfolios
  PROVE  RealizedToday(t, pf) \in Int /\ DayStartBankroll(t, pf) \in Int
<1>1. IsTable(t.rows) /\ \A i \in DOMAIN t.rows : t.rows[i] \in RowType
  BY TxnFieldTypes, TypedTable
<1>2. IsFiniteSet(DOMAIN t.rows)
  BY <1>1, TableLength, FS_Interval
<1> DEFINE ids == {j \in OfPortfolio(t.rows, Visible(t), pf, "CLOSED") :
                     Day(t.rows[j].exitAt) >= Day(t.at)}
           held == {j \in OfPortfolio(t.rows, Visible(t), pf, "OPEN") :
                      Day(t.rows[j].entryAt) >= Day(t.at)}
           pnls == [i \in ids |-> t.rows[i].pnl]
           costs == [i \in held |-> Cost(t.rows[i])]
<1>3. ids \subseteq DOMAIN t.rows /\ held \subseteq DOMAIN t.rows
  BY DEF OfPortfolio
<1>. HIDE DEF ids, held
<1>4. IsFiniteSet(ids) /\ IsFiniteSet(held)
  BY <1>2, <1>3, FS_Subset
<1>5. IsSummable(pnls)
  <2>1. \A i \in ids : t.rows[i].pnl \in Int
    BY <1>1, <1>3 DEF RowType
  <2>. QED
    BY <1>4, <2>1 DEF IsSummable
<1>6. IsSummable(costs)
  <2>1. \A i \in held : Cost(t.rows[i]) \in Int
    BY <1>1, <1>3, CostType
  <2>. QED
    BY <1>4, <2>1 DEF IsSummable
<1>. HIDE DEF pnls, costs
<1>7. SumFunction(pnls) \in Int /\ SumFunction(costs) \in Int
  BY <1>5, <1>6, TotalInt
<1>8. RealizedToday(t, pf) = SumFunction(pnls)
  BY DEF RealizedToday, pnls, ids
<1>9. DayStartBankroll(t, pf) = t.cash[pf] - RealizedToday(t, pf) + SumFunction(costs)
  BY DEF DayStartBankroll, costs, held
<1>10. t.cash[pf] \in Int
  BY TxnFieldTypes
<1>. QED
  BY <1>7, <1>8, <1>9, <1>10

\* The tables the services write.
ServicesOK ==
  /\ sig \in [Signals -> [status : {"NONE", "ACTIVE", "EXPIRED"}, born : 0..MaxTime,
                          score : 0..MaxScore]]
  /\ closed \in [Markets -> BOOLEAN]
  /\ winner \in [Markets -> Sides \cup {"none", "void"}]
  /\ now \in 0..MaxTime
  /\ stop \in [on : BOOLEAN, flips : 0..MaxStops]

EngineOK ==
  /\ cash \in [Portfolios -> Int]
  /\ rows \in Seq(RowType)
  /\ txn = NoTxn \/ txn \in TxnType
  /\ faults \in 0..MaxFaults

\* The services keep their tables typed and leave the engine's alone.
LEMMA ServicesType ==
  ServicesOK /\ Services => ServicesOK' /\ UNCHANGED <<cash, rows, txn, faults>>
<1> SUFFICES ASSUME ServicesOK, Services
             PROVE  ServicesOK' /\ UNCHANGED <<cash, rows, txn, faults>>
  OBVIOUS
<1>1. ASSUME NEW s \in Signals, CreateSignal(s)
      PROVE  ServicesOK' /\ UNCHANGED <<cash, rows, txn, faults>>
  <2>1. PICK score \in 1..MaxScore :
          sig' = [sig EXCEPT ![s] = [status |-> "ACTIVE", born |-> now, score |-> score]]
    BY <1>1 DEF CreateSignal
  <2>2. score \in 0..MaxScore
    BY DataAssumption
  <2>. QED
    BY <1>1, <2>1, <2>2 DEF CreateSignal, ServicesOK
<1>2. ASSUME NEW s \in Signals, ReinforceSignal(s) \/ ExpireSignal(s)
      PROVE  ServicesOK' /\ UNCHANGED <<cash, rows, txn, faults>>
  <2>1. sig[s].score < MaxScore => sig[s].score + 1 \in 0..MaxScore
    BY DataAssumption DEF ServicesOK
  <2>. QED
    BY <1>2, <2>1 DEF ReinforceSignal, ExpireSignal, ServicesOK
<1>3. ASSUME NEW m \in Markets, CloseMarket(m) \/ RecordResolution(m)
      PROVE  ServicesOK' /\ UNCHANGED <<cash, rows, txn, faults>>
  BY <1>3 DEF CloseMarket, RecordResolution, ServicesOK
<1>4. CASE FlipEmergencyStop
  <2>1. stop.flips \in 0..MaxStops /\ stop.on \in BOOLEAN
    BY DEF ServicesOK
  <2>2. stop.flips < MaxStops => stop.flips + 1 \in 0..MaxStops
    BY <2>1, DataAssumption
  <2>. QED
    BY <1>4, <2>1, <2>2 DEF FlipEmergencyStop, ServicesOK
<1>5. CASE Tick
  <2>1. now < MaxTime => now + 1 \in 0..MaxTime
    BY DataAssumption DEF ServicesOK
  <2>. QED
    BY <1>5, <2>1 DEF Tick, ServicesOK
<1>. QED
  BY <1>1, <1>2, <1>3, <1>4, <1>5 DEF Services

\* A cycle begins typed.
LEMMA BeginCycleType ==
  ASSUME ServicesOK, EngineOK, BeginCycle PROVE EngineOK'
<1> DEFINE records == ResolvedTrades(now)
<1>1. rows \in Seq(RowType) /\ Len(rows) \in Nat /\ DOMAIN rows = 1..Len(rows)
  BY SequenceType DEF EngineOK
<1>2. IsFiniteSet(DOMAIN records)
  <2> DEFINE resolved == {i \in DOMAIN rows : /\ rows[i].status = "CLOSED"
                                              /\ rows[i].reason = "market_resolved"
                                              /\ rows[i].exitAt >= now - CalibrationConfig.window}
  <2>1. IsFiniteSet(DOMAIN rows)
    BY <1>1, FS_Interval
  <2>2. IsFiniteSet(resolved)
    BY <2>1, FS_Subset
  <2>3. IsFiniteSet(DOMAIN PastTrades)
    BY DataAssumption
  <2>4. DOMAIN records = DOMAIN PastTrades \cup resolved
    BY DEF ResolvedTrades
  <2>. HIDE DEF resolved, records
  <2>. QED
    BY <2>2, <2>3, <2>4, FS_Union
<1>. HIDE DEF records
<1>3. TrustedBuckets(records, CalibrationConfig) \in SUBSET Rates
  BY <1>2, BucketsType
<1>4. NothingToDecide \in [Signals -> 0..MaxScore]
  BY DataAssumption DEF NothingToDecide
<1>5. (CHOOSE pf \in Portfolios : TRUE) \in Portfolios
  BY DataAssumption
<1>6. now \in 0..MaxTime /\ stop.on \in BOOLEAN /\ cash \in [Portfolios -> Int]
  BY DEF ServicesOK, EngineOK
<1>7. txn' \in TxnType
  <2> DEFINE buckets == TrustedBuckets(records, CalibrationConfig)
             first == CHOOSE pf \in Portfolios : TRUE
  <2>1. txn' = [at |-> now, stop |-> stop.on, left |-> Portfolios, phase |-> "pick",
                pf |-> first, base |-> Len(rows), rows |-> rows,
                cash |-> cash, todo |-> NothingToDecide, open |-> {}, dayStart |-> 0,
                realizedToday |-> 0, buckets |-> buckets]
    BY DEF BeginCycle, records
  <2>. HIDE DEF buckets, first
  <2>2. buckets \in SUBSET Rates /\ first \in Portfolios
    BY <1>3, <1>5 DEF buckets, first
  <2>. QED
    BY <1>1, <1>4, <1>6, <2>1, <2>2 DEF TxnType, Rates
<1>. QED
  BY <1>7 DEF BeginCycle, EngineOK

\* The reads of a portfolio's start are typed.
LEMMA StartPortfolioType ==
  ASSUME ServicesOK, EngineOK, IInv, NEW pf \in Portfolios, StartPortfolio(pf) PROVE EngineOK'
<1>1. txn \in TxnType
  BY DEF EngineOK, StartPortfolio
<1>2. Visible(txn) \subseteq DOMAIN txn.rows
  <2>1. CycleOK(txn)
    BY DEF IInv, StartPortfolio
  <2>2. /\ txn.base = Len(rows) /\ Len(rows) <= Len(txn.rows) /\ Len(rows) \in Nat
        /\ Len(txn.rows) \in Nat /\ DOMAIN txn.rows = 1..Len(txn.rows)
    BY <2>1, TableLength DEF IInv, CycleOK, IsTxn, ExtendsTable, TableOK
  <2>. QED
    BY <2>2 DEF Visible
<1>3. RealizedToday(txn, pf) \in Int /\ DayStartBankroll(txn, pf) \in Int
  BY <1>1, <1>2, DayType
<1> DEFINE undecided == {s \in Signals : sig[s].status = "ACTIVE"} \ AlreadyDecided(txn, pf)
           todo == [s \in Signals |-> IF s \in undecided THEN sig[s].score ELSE 0]
<1>4. todo \in [Signals -> 0..MaxScore]
  <2>. HIDE DEF undecided
  <2>1. \A s \in Signals : sig[s].score \in 0..MaxScore /\ 0 \in 0..MaxScore
    BY DataAssumption DEF ServicesOK
  <2>. QED
    BY <2>1
<1>5. txn' = [txn EXCEPT !.phase = "entries", !.pf = pf, !.todo = todo,
                         !.dayStart = DayStartBankroll(txn, pf),
                         !.realizedToday = RealizedToday(txn, pf)]
  BY DEF StartPortfolio
<1>. HIDE DEF todo
<1>6. txn' \in TxnType
  BY <1>1, <1>3, <1>4, <1>5 DEF TxnType
<1>. QED
  BY <1>6 DEF StartPortfolio, services, EngineOK

\* The lists of a transaction are typed.
LEMMA ListsType ==
  ASSUME EngineOK, IInv,
         (\E s \in Signals : SkipClosedMarket(s)) \/ StartExits \/ FinishPortfolio
  PROVE  EngineOK'
<1>1. txn \in TxnType
  BY DEF EngineOK, SkipClosedMarket, StartExits, FinishPortfolio
<1>2. txn.todo \in [Signals -> 0..MaxScore] /\ txn.left \in SUBSET Portfolios
  BY <1>1, TxnFieldTypes
<1>3. ASSUME NEW s \in Signals, SkipClosedMarket(s) PROVE EngineOK'
  <2>1. [txn.todo EXCEPT ![s] = 0] \in [Signals -> 0..MaxScore]
    BY <1>2, DataAssumption
  <2> DEFINE todo == [txn.todo EXCEPT ![s] = 0]
  <2>2. txn' = [txn EXCEPT !.todo = todo]
    BY <1>3 DEF SkipClosedMarket
  <2>. HIDE DEF todo
  <2>3. txn' \in TxnType
    BY <1>1, <2>1, <2>2 DEF TxnType, todo
  <2>. QED
    BY <1>3, <2>3 DEF SkipClosedMarket, services, EngineOK
<1>4. CASE StartExits
  <2> DEFINE ids == OfPortfolio(txn.rows, Visible(txn), txn.pf, "OPEN")
  <2>1. ids \in SUBSET Nat
    <3>1. txn.base \in Nat
      BY <1>1, TxnFieldTypes
    <3>. QED
      BY <3>1 DEF OfPortfolio, Visible
  <2>2. txn' = [txn EXCEPT !.phase = "exits", !.open = ids]
    BY <1>4 DEF StartExits
  <2>. HIDE DEF ids
  <2>3. txn' \in TxnType
    BY <1>1, <2>1, <2>2 DEF TxnType
  <2>. QED
    BY <1>4, <2>3 DEF StartExits, services, EngineOK
<1>5. CASE FinishPortfolio
  <2>1. txn' \in TxnType
    BY <1>1, <1>2, <1>5 DEF FinishPortfolio, TxnType
  <2>. QED
    BY <1>5, <2>1 DEF FinishPortfolio, services, EngineOK
<1>. QED
  BY <1>3, <1>4, <1>5

\* A table stays typed when a typed row is added or overwritten.
LEMMA TypedRows ==
  ASSUME NEW rs \in Seq(RowType), NEW row \in RowType
  PROVE  /\ Append(rs, row) \in Seq(RowType)
         /\ \A n \in DOMAIN rs : [rs EXCEPT ![n] = row] \in Seq(RowType)
<1>. DEFINE S == RowType
<1>. HIDE DEF S
<1>1. rs \in Seq(S) /\ row \in S
  BY DEF S
<1>2. Append(rs, row) \in Seq(S)
  BY <1>1, AppendProperties
<1>3. \A n \in DOMAIN rs : [rs EXCEPT ![n] = row] \in Seq(S)
  BY <1>1, ExceptSeq, SequenceType
<1>. QED
  BY <1>2, <1>3 DEF S

\* A decision adds a typed row.
LEMMA DecideSignalType ==
  ASSUME DriftsBelowPrice, BankrollIsChecked, EngineOK, NEW s \in Signals, DecideSignal(s)
  PROVE  EngineOK'
<1>1. txn \in TxnType
  BY DEF EngineOK, DecideSignal
<1>2. PICK q \in Quotes[txn.pf], score \in EntryScores(txn, s) :
        \E gate \in {Gate(txn, s)} :
          \E fill \in {ComputeFill(SignalPrice[s], gate.notional, q, Config[txn.pf])} :
            LET row == Decision(txn, s, score, q, gate, fill)
            IN  txn' = [txn EXCEPT !.todo[s] = 0, !.rows = Append(@, row),
                              !.cash[txn.pf] = @ - (Cost(row) + row.entryFee)]
  BY DEF DecideSignal
<1> DEFINE fill == ComputeFill(SignalPrice[s], Gate(txn, s).notional, q, Config[txn.pf])
           row == Decision(txn, s, score, q, Gate(txn, s), fill)
           paid == Cost(row) + row.entryFee
<1>3. row \in RowType
  BY <1>1, DecisionType
<1>. HIDE DEF row
<1>4. paid \in Int
  BY <1>3, CostType DEF RowType
<1>5. /\ txn.pf \in Portfolios /\ txn.rows \in Seq(RowType) /\ txn.cash \in [Portfolios -> Int]
      /\ txn.todo \in [Signals -> 0..MaxScore]
  BY <1>1, TxnFieldTypes
<1> DEFINE todo == [txn.todo EXCEPT ![s] = 0]
           table == Append(txn.rows, row)
           bankrolls == [txn.cash EXCEPT ![txn.pf] = @ - paid]
<1>6. txn' = [txn EXCEPT !.todo = todo, !.rows = table, !.cash = bankrolls]
  BY <1>2 DEF row
<1>7. todo \in [Signals -> 0..MaxScore] /\ table \in Seq(RowType)
  BY <1>3, <1>5, TypedRows, DataAssumption
<1>8. bankrolls \in [Portfolios -> Int]
  <2>. HIDE DEF paid
  <2>. QED
    BY <1>4, <1>5
<1>. HIDE DEF todo, table, bankrolls
<1>9. txn' \in TxnType
  BY <1>1, <1>6, <1>7, <1>8 DEF TxnType
<1>. QED
  BY <1>9 DEF DecideSignal, services, EngineOK

\* An exit check overwrites a row by a typed one.
LEMMA CheckTradeType ==
  ASSUME EngineOK, IInv, NEW n, CheckTrade(n) PROVE EngineOK'
<1>1. txn \in TxnType
  BY DEF EngineOK, CheckTrade
<1>2. PICK q \in Quotes[txn.pf] :
        \E checked \in {ExitCheck(txn, txn.rows[n], q)} :
          txn' = [txn EXCEPT !.open = @ \ {n}, !.rows[n] = checked.row,
                             !.cash[txn.pf] = @ + checked.credit]
  BY DEF CheckTrade
<1> DEFINE check == ExitCheck(txn, txn.rows[n], q)
<1>3. n \in DOMAIN txn.rows /\ txn.rows[n].status = "OPEN" /\ n \in txn.open
  <2>1. CycleOK(txn) /\ txn.phase = "exits" /\ n \in txn.open
    BY DEF IInv, CheckTrade
  <2>2. /\ n \in 1..Len(rows) /\ txn.rows[n].status = "OPEN" /\ Len(rows) <= Len(txn.rows)
        /\ Len(rows) \in Nat /\ Len(txn.rows) \in Nat /\ DOMAIN txn.rows = 1..Len(txn.rows)
    BY <2>1, TableLength DEF IInv, CycleOK, OpenListIsOpen, ExtendsTable, TableOK
  <2>. QED
    BY <2>1, <2>2
<1>4. /\ txn.pf \in Portfolios /\ txn.rows \in Seq(RowType) /\ txn.cash \in [Portfolios -> Int]
      /\ txn.open \in SUBSET Nat
  BY <1>1, TxnFieldTypes
<1>5. txn.rows[n] \in RowType
  BY <1>3, <1>4, TypedTable
<1>6. check.row \in RowType /\ check.credit \in Int
  BY <1>1, <1>3, <1>5, ExitCheckType
<1>. HIDE DEF check
<1> DEFINE open == txn.open \ {n}
           table == [txn.rows EXCEPT ![n] = check.row]
           bankrolls == [txn.cash EXCEPT ![txn.pf] = @ + check.credit]
<1>7. txn' = [txn EXCEPT !.open = open, !.rows = table, !.cash = bankrolls]
  BY <1>2 DEF check
<1>8. open \in SUBSET Nat /\ bankrolls \in [Portfolios -> Int]
  BY <1>4, <1>6
<1>9. table \in Seq(RowType)
  BY <1>3, <1>4, <1>6, TypedRows
<1>. HIDE DEF open, table, bankrolls
<1>10. txn' \in TxnType
  BY <1>1, <1>7, <1>8, <1>9 DEF TxnType
<1>. QED
  BY <1>10 DEF CheckTrade, services, EngineOK

\* Every table and every transaction is typed in every reachable state.
THEOREM TypeCorrect ==
  ASSUME DriftsBelowPrice, BankrollIsChecked PROVE Spec => []TypeOK
<1>1. TypeOK <=> ServicesOK /\ EngineOK
  BY DEF TypeOK, ServicesOK, EngineOK
<1>2. Init => ServicesOK /\ EngineOK
  <2> SUFFICES ASSUME Init PROVE ServicesOK /\ EngineOK
    OBVIOUS
  <2>1. /\ 0 \in 0..MaxTime /\ 0 \in 0..MaxScore /\ 0 \in 0..MaxStops /\ 0 \in 0..MaxFaults
        /\ StartingBankroll \in Int
    BY DataAssumption, ConfigAssumption
  <2>2. rows \in Seq(RowType)
    <3>. DEFINE S == RowType
    <3>. HIDE DEF S
    <3>1. <<>> \in Seq(S)
      BY EmptySeq
    <3>. QED
      BY <3>1 DEF Init, S
  <2>3. ServicesOK
    BY <2>1 DEF Init, ServicesOK
  <2>4. EngineOK
    BY <2>1, <2>2 DEF Init, EngineOK
  <2>. QED
    BY <2>3, <2>4
<1>3. ServicesOK /\ EngineOK /\ IInv /\ [Next]_vars => ServicesOK' /\ EngineOK'
  <2> SUFFICES ASSUME ServicesOK, EngineOK, IInv, [Next]_vars PROVE ServicesOK' /\ EngineOK'
    OBVIOUS
  <2>1. CASE Services
    BY <2>1, ServicesType DEF EngineOK
  <2>2. Cycle \/ FailCycle => ServicesOK'
    <3>1. Cycle \/ FailCycle => UNCHANGED services
      BY DEF Cycle, BeginCycle, StartPortfolio, SkipClosedMarket, DecideSignal, StartExits,
             CheckTrade, FinishPortfolio, CommitCycle, FailCycle
    <3>. QED
      BY <3>1 DEF services, ServicesOK
  <2>3. CASE BeginCycle
    BY <2>2, <2>3, BeginCycleType DEF Cycle
  <2>4. ASSUME NEW pf \in Portfolios, StartPortfolio(pf) PROVE EngineOK'
    BY <2>4, StartPortfolioType
  <2>5. CASE (\E s \in Signals : SkipClosedMarket(s)) \/ StartExits \/ FinishPortfolio
    BY <2>2, <2>5, ListsType DEF Cycle
  <2>6. ASSUME NEW s \in Signals, DecideSignal(s) PROVE EngineOK'
    BY <2>6, DecideSignalType
  <2>7. ASSUME NEW n, CheckTrade(n) PROVE EngineOK'
    BY <2>7, CheckTradeType
  <2>8. CommitCycle => EngineOK'
    <3> SUFFICES ASSUME CommitCycle PROVE EngineOK'
      OBVIOUS
    <3>1. txn \in TxnType
      BY DEF EngineOK, CommitCycle
    <3>2. txn.rows \in Seq(RowType) /\ txn.cash \in [Portfolios -> Int]
      BY <3>1, TxnFieldTypes
    <3>. QED
      BY <3>2 DEF EngineOK, CommitCycle
  <2>9. FailCycle => EngineOK'
    <3>1. faults < MaxFaults => faults + 1 \in 0..MaxFaults
      BY DataAssumption DEF EngineOK
    <3>. QED
      BY <3>1 DEF EngineOK, FailCycle
  <2>10. CASE UNCHANGED vars
    BY <2>10 DEF vars, ServicesOK, EngineOK
  <2>. QED
    BY <2>1, <2>2, <2>3, <2>4, <2>5, <2>6, <2>7, <2>8, <2>9, <2>10 DEF Next, Cycle
<1>. QED
  BY <1>1, <1>2, <1>3, Invariance, PTL DEF Spec

-----------------------------------------------------------------------------
(***************************************************************************)
(* The ledger balances.                                                    *)
(***************************************************************************)

\* What the closed trades of a portfolio realized, and what its open ones cost.
Realized(rs, pf) ==
  SumFunction([i \in OfPortfolio(rs, DOMAIN rs, pf, "CLOSED") |-> rs[i].pnl])

Invested(rs, pf) ==
  SumFunction([i \in OfPortfolio(rs, DOMAIN rs, pf, "OPEN") |-> Cost(rs[i]) + rs[i].entryFee])

\* Tables of typed rows.
IsLedger(rs) == IsTable(rs) /\ \A i \in DOMAIN rs : rs[i] \in RowType

\* The rows of a portfolio can be added up.
LEMMA LedgerSums ==
  ASSUME NEW rs, IsLedger(rs), NEW pf
  PROVE  /\ IsSummable([i \in OfPortfolio(rs, DOMAIN rs, pf, "CLOSED") |-> rs[i].pnl])
         /\ IsSummable([i \in OfPortfolio(rs, DOMAIN rs, pf, "OPEN") |->
                          Cost(rs[i]) + rs[i].entryFee])
         /\ Realized(rs, pf) \in Int /\ Invested(rs, pf) \in Int
<1> DEFINE gone == OfPortfolio(rs, DOMAIN rs, pf, "CLOSED")
           held == OfPortfolio(rs, DOMAIN rs, pf, "OPEN")
           f == [i \in gone |-> rs[i].pnl]
           g == [i \in held |-> Cost(rs[i]) + rs[i].entryFee]
<1>1. IsFiniteSet(DOMAIN rs)
  BY TableLength, FS_Interval DEF IsLedger
<1>2. gone \subseteq DOMAIN rs /\ held \subseteq DOMAIN rs
  BY DEF OfPortfolio
<1>. HIDE DEF gone, held
<1>3. IsFiniteSet(gone) /\ IsFiniteSet(held)
  BY <1>1, <1>2, FS_Subset
<1>4. \A i \in gone : rs[i].pnl \in Int
  BY <1>2 DEF IsLedger, RowType
<1>5. \A i \in held : Cost(rs[i]) + rs[i].entryFee \in Int
  <2>1. \A i \in held : Cost(rs[i]) \in Int /\ rs[i].entryFee \in Int
    BY <1>2, CostType DEF IsLedger, RowType
  <2>. QED
    BY <2>1
<1>6. IsSummable(f) /\ IsSummable(g)
  BY <1>3, <1>4, <1>5 DEF IsSummable
<1>. HIDE DEF f, g
<1>7. SumFunction(f) \in Int /\ SumFunction(g) \in Int
  BY <1>6, TotalInt
<1>. QED
  BY <1>6, <1>7 DEF f, g, gone, held, Realized, Invested

\* A table that differs from another in rows of one portfolio only adds up to
\* the same for the others.
LEMMA OthersAddUp ==
  ASSUME NEW rs, NEW new, NEW pf,
         OfPortfolio(new, DOMAIN new, pf, "CLOSED") = OfPortfolio(rs, DOMAIN rs, pf, "CLOSED"),
         OfPortfolio(new, DOMAIN new, pf, "OPEN") = OfPortfolio(rs, DOMAIN rs, pf, "OPEN"),
         \A i \in OfPortfolio(rs, DOMAIN rs, pf, "CLOSED") : new[i] = rs[i],
         \A i \in OfPortfolio(rs, DOMAIN rs, pf, "OPEN") :
           /\ new[i].price = rs[i].price /\ new[i].size = rs[i].size
           /\ new[i].entryFee = rs[i].entryFee
  PROVE  Realized(new, pf) = Realized(rs, pf) /\ Invested(new, pf) = Invested(rs, pf)
<1>1. \A i \in OfPortfolio(rs, DOMAIN rs, pf, "OPEN") :
        Cost(new[i]) + new[i].entryFee = Cost(rs[i]) + rs[i].entryFee
  BY DEF Cost
<1> DEFINE gone == OfPortfolio(rs, DOMAIN rs, pf, "CLOSED")
           held == OfPortfolio(rs, DOMAIN rs, pf, "OPEN")
<1>2. [i \in gone |-> new[i].pnl] = [i \in gone |-> rs[i].pnl]
  OBVIOUS
<1>3. [i \in held |-> Cost(new[i]) + new[i].entryFee]
        = [i \in held |-> Cost(rs[i]) + rs[i].entryFee]
  <2>. HIDE DEF held
  <2>. QED
    BY <1>1 DEF held
<1>. QED
  BY <1>2, <1>3 DEF Realized, Invested

\* A new row that is not closed adds what it cost to what is invested.
LEMMA AppendLedger ==
  ASSUME NEW rs, IsLedger(rs), NEW row \in RowType, row.status \in {"OPEN", "MISSED"},
         NEW pf
  PROVE  /\ IsLedger(Append(rs, row))
         /\ Realized(Append(rs, row), pf) = Realized(rs, pf)
         /\ Invested(Append(rs, row), pf)
              = Invested(rs, pf) + (IF row.pf = pf /\ row.status = "OPEN"
                                      THEN Cost(row) + row.entryFee ELSE 0)
<1> DEFINE new == Append(rs, row)
           n == Len(rs) + 1
<1>1. /\ IsTable(new) /\ DOMAIN rs = 1..Len(rs) /\ Len(rs) \in Nat
      /\ DOMAIN new = 1..n
      /\ \A i \in DOMAIN rs : new[i] = rs[i]
      /\ new[n] = row
  BY AppendRow, TableLength DEF IsLedger
<1>. HIDE DEF new
<1>2. /\ DOMAIN new = DOMAIN rs \cup {n} /\ n \notin DOMAIN rs
  BY <1>1
<1>. HIDE DEF n
<1>3. IsLedger(new)
  BY <1>1, <1>2 DEF IsLedger
<1>4. OfPortfolio(new, DOMAIN new, pf, "CLOSED") = OfPortfolio(rs, DOMAIN rs, pf, "CLOSED")
  BY <1>1, <1>2 DEF OfPortfolio
<1>5. \A i \in OfPortfolio(rs, DOMAIN rs, pf, "CLOSED") \cup OfPortfolio(rs, DOMAIN rs, pf, "OPEN") :
        new[i] = rs[i]
  BY <1>1 DEF OfPortfolio
<1>6. Invested(rs, pf) \in Int
  BY LedgerSums
<1>7. CASE ~(row.pf = pf /\ row.status = "OPEN")
  <2>1. OfPortfolio(new, DOMAIN new, pf, "OPEN") = OfPortfolio(rs, DOMAIN rs, pf, "OPEN")
    BY <1>1, <1>2, <1>7 DEF OfPortfolio
  <2>2. Realized(new, pf) = Realized(rs, pf) /\ Invested(new, pf) = Invested(rs, pf)
    BY <1>4, <1>5, <2>1, OthersAddUp
  <2>. QED
    BY <1>3, <1>6, <1>7, <2>2 DEF new
<1>8. CASE row.pf = pf /\ row.status = "OPEN"
  <2>1. Realized(new, pf) = Realized(rs, pf)
    <3> DEFINE gone == OfPortfolio(rs, DOMAIN rs, pf, "CLOSED")
    <3>1. [i \in gone |-> new[i].pnl] = [i \in gone |-> rs[i].pnl]
      BY <1>5
    <3>. QED
      BY <1>4, <3>1 DEF Realized
  <2> DEFINE before == OfPortfolio(rs, DOMAIN rs, pf, "OPEN")
             after == OfPortfolio(new, DOMAIN new, pf, "OPEN")
             f == [i \in before |-> Cost(rs[i]) + rs[i].entryFee]
             g == [i \in after |-> Cost(new[i]) + new[i].entryFee]
  <2>2. n \in after /\ before = after \ {n} /\ \A i \in before : new[i] = rs[i]
    BY <1>1, <1>2, <1>8 DEF OfPortfolio
  <2>3. IsSummable(g)
    BY <1>3, LedgerSums
  <2>. HIDE DEF before, after
  <2>4. DOMAIN f = before /\ DOMAIN g = after /\ (\A i \in before : f[i] = g[i])
          /\ g[n] = Cost(row) + row.entryFee
    BY <1>1, <2>2
  <2>5. SumFunction(f) = Invested(rs, pf) /\ SumFunction(g) = Invested(new, pf)
    BY DEF Invested, before, after
  <2>. HIDE DEF f, g
  <2>6. IsOneMore(f, g, n)
    BY <2>2, <2>3, <2>4 DEF IsOneMore
  <2>7. SumFunction(g) = SumFunction(f) + g[n]
    BY <2>6, TotalAdd
  <2>. QED
    BY <1>3, <1>8, <2>1, <2>4, <2>5, <2>7 DEF new
<1>. QED
  BY <1>7, <1>8

\* An open row that stays open at its entry moves nothing; one that closes moves
\* its cost out of what is invested and its profit into what is realized.
LEMMA OverwriteLedger ==
  ASSUME NEW rs, IsLedger(rs), NEW n \in DOMAIN rs, rs[n].status = "OPEN",
         NEW row \in RowType, row.pf = rs[n].pf,
         \/ /\ row.status = "OPEN" /\ row.price = rs[n].price /\ row.size = rs[n].size
            /\ row.entryFee = rs[n].entryFee
         \/ row.status = "CLOSED",
         NEW pf
  PROVE  LET new == [rs EXCEPT ![n] = row]
             leaves == row.pf = pf /\ row.status = "CLOSED"
         IN  /\ IsLedger(new)
             /\ Realized(new, pf) = Realized(rs, pf) + (IF leaves THEN row.pnl ELSE 0)
             /\ Invested(new, pf)
                  = Invested(rs, pf) - (IF leaves THEN Cost(rs[n]) + rs[n].entryFee ELSE 0)
<1> DEFINE new == [rs EXCEPT ![n] = row]
           leaves == row.pf = pf /\ row.status = "CLOSED"
<1>1. /\ IsTable(new) /\ DOMAIN new = DOMAIN rs
      /\ \A i \in DOMAIN rs : new[i] = IF i = n THEN row ELSE rs[i]
  BY OverwriteRow DEF IsLedger
<1>. HIDE DEF new
<1>2. IsLedger(new)
  BY <1>1 DEF IsLedger
<1>3. Realized(rs, pf) \in Int /\ Invested(rs, pf) \in Int
        /\ Realized(new, pf) \in Int /\ Invested(new, pf) \in Int
  BY <1>2, LedgerSums
<1>4. CASE ~leaves
  <2>1. OfPortfolio(new, DOMAIN new, pf, "CLOSED") = OfPortfolio(rs, DOMAIN rs, pf, "CLOSED")
    BY <1>1, <1>4 DEF OfPortfolio
  <2>2. OfPortfolio(new, DOMAIN new, pf, "OPEN") = OfPortfolio(rs, DOMAIN rs, pf, "OPEN")
    BY <1>1, <1>4 DEF OfPortfolio
  <2>3. \A i \in OfPortfolio(rs, DOMAIN rs, pf, "CLOSED") : new[i] = rs[i]
    BY <1>1 DEF OfPortfolio
  <2>4. \A i \in OfPortfolio(rs, DOMAIN rs, pf, "OPEN") :
           /\ new[i].price = rs[i].price /\ new[i].size = rs[i].size
           /\ new[i].entryFee = rs[i].entryFee
    BY <1>1, <1>4 DEF OfPortfolio
  <2>5. Realized(new, pf) = Realized(rs, pf) /\ Invested(new, pf) = Invested(rs, pf)
    BY <2>1, <2>2, <2>3, <2>4, OthersAddUp
  <2>. QED
    BY <1>2, <1>3, <1>4, <2>5 DEF new
<1>5. CASE leaves
  <2> DEFINE before == OfPortfolio(rs, DOMAIN rs, pf, "CLOSED")
             after == OfPortfolio(new, DOMAIN new, pf, "CLOSED")
             f == [i \in before |-> rs[i].pnl]
             g == [i \in after |-> new[i].pnl]
  <2>1. Realized(new, pf) = Realized(rs, pf) + row.pnl
    <3>1. n \in after /\ before = after \ {n} /\ (\A i \in before : new[i] = rs[i])
      BY <1>1, <1>5 DEF OfPortfolio
    <3>2. IsSummable(g)
      BY <1>2, LedgerSums
    <3>. HIDE DEF before, after
    <3>3. DOMAIN f = before /\ DOMAIN g = after /\ (\A i \in before : f[i] = g[i])
            /\ g[n] = row.pnl
      BY <1>1, <3>1
    <3>4. SumFunction(f) = Realized(rs, pf) /\ SumFunction(g) = Realized(new, pf)
      BY DEF Realized, before, after
    <3>. HIDE DEF f, g
    <3>5. IsOneMore(f, g, n)
      BY <3>1, <3>2, <3>3 DEF IsOneMore
    <3>6. SumFunction(g) = SumFunction(f) + g[n]
      BY <3>5, TotalAdd
    <3>. QED
      BY <3>3, <3>4, <3>6
  <2> DEFINE held == OfPortfolio(rs, DOMAIN rs, pf, "OPEN")
             kept == OfPortfolio(new, DOMAIN new, pf, "OPEN")
             u == [i \in kept |-> Cost(new[i]) + new[i].entryFee]
             v == [i \in held |-> Cost(rs[i]) + rs[i].entryFee]
  <2>2. Invested(rs, pf) = Invested(new, pf) + (Cost(rs[n]) + rs[n].entryFee)
    <3>1. n \in held /\ kept = held \ {n} /\ (\A i \in kept : new[i] = rs[i])
      BY <1>1, <1>5 DEF OfPortfolio
    <3>2. IsSummable(v)
      BY LedgerSums
    <3>. HIDE DEF held, kept
    <3>3. DOMAIN u = kept /\ DOMAIN v = held /\ (\A i \in kept : u[i] = v[i])
            /\ v[n] = Cost(rs[n]) + rs[n].entryFee
      BY <3>1
    <3>4. SumFunction(u) = Invested(new, pf) /\ SumFunction(v) = Invested(rs, pf)
      BY DEF Invested, held, kept
    <3>. HIDE DEF u, v
    <3>5. IsOneMore(u, v, n)
      BY <3>1, <3>2, <3>3 DEF IsOneMore
    <3>6. SumFunction(v) = SumFunction(u) + v[n]
      BY <3>5, TotalAdd
    <3>. QED
      BY <3>3, <3>4, <3>6
  <2>3. Cost(rs[n]) + rs[n].entryFee \in Int
    <3>1. Cost(rs[n]) \in Int /\ rs[n].entryFee \in Int
      BY CostType DEF IsLedger, RowType
    <3>. QED
      BY <3>1
  <2>. HIDE DEF before, after, f, g, held, kept, u, v
  <2>. QED
    BY <1>2, <1>3, <1>5, <2>1, <2>2, <2>3 DEF new
<1>. QED
  BY <1>4, <1>5

\* What balanced means for one portfolio.
LEMMA BalancedSums ==
  ASSUME NEW bankroll, NEW rs
  PROVE  Balanced(bankroll, rs) <=>
           \A pf \in Portfolios :
             bankroll[pf] = StartingBankroll + Realized(rs, pf) - Invested(rs, pf)
BY DEF Balanced, Realized, Invested

\* A decision pays for the row it adds.
LEMMA DecideSignalBalances ==
  ASSUME DriftsBelowPrice, BankrollIsChecked, TypeOK, NEW s \in Signals, DecideSignal(s),
         Balanced(txn.cash, txn.rows)
  PROVE  Balanced(txn'.cash, txn'.rows)
<1>1. txn \in TxnType
  BY DEF TypeOK, DecideSignal
<1>2. PICK q \in Quotes[txn.pf], score \in EntryScores(txn, s) :
        \E gate \in {Gate(txn, s)} :
          \E fill \in {ComputeFill(SignalPrice[s], gate.notional, q, Config[txn.pf])} :
            LET row == Decision(txn, s, score, q, gate, fill)
            IN  txn' = [txn EXCEPT !.todo[s] = 0, !.rows = Append(@, row),
                              !.cash[txn.pf] = @ - (Cost(row) + row.entryFee)]
  BY DEF DecideSignal
<1> DEFINE fill == ComputeFill(SignalPrice[s], Gate(txn, s).notional, q, Config[txn.pf])
           row == Decision(txn, s, score, q, Gate(txn, s), fill)
           paid == Cost(row) + row.entryFee
           opens == row.status = "OPEN"
<1>3. /\ row \in RowType
      /\ row.status # "OPEN" => Cost(row) = 0 /\ row.entryFee = 0
  BY <1>1, DecisionType
<1>4. /\ txn.pf \in Portfolios /\ txn.rows \in Seq(RowType) /\ txn.cash \in [Portfolios -> Int]
  BY <1>1, TxnFieldTypes
<1>5. row.pf = txn.pf /\ row.status \in {"MISSED", "OPEN"}
  BY <1>4, DecisionRow
<1>. HIDE DEF row
<1>6. paid \in Int /\ (~opens => paid = 0)
  BY <1>3, CostType DEF RowType
<1>7. IsLedger(txn.rows)
  BY <1>4, TypedTable DEF IsLedger
<1>8. txn'.rows = Append(txn.rows, row) /\ txn'.cash = [txn.cash EXCEPT ![txn.pf] = @ - paid]
  BY <1>1, <1>2 DEF TxnType, row
<1>9. ASSUME NEW pf \in Portfolios
      PROVE  txn'.cash[pf] = StartingBankroll + Realized(txn'.rows, pf) - Invested(txn'.rows, pf)
  <2>1. /\ Realized(txn'.rows, pf) = Realized(txn.rows, pf)
        /\ Invested(txn'.rows, pf)
             = Invested(txn.rows, pf) + (IF row.pf = pf /\ row.status = "OPEN"
                                           THEN Cost(row) + row.entryFee ELSE 0)
    BY <1>3, <1>5, <1>7, <1>8, AppendLedger
  <2>2. Realized(txn.rows, pf) \in Int /\ Invested(txn.rows, pf) \in Int
    BY <1>7, LedgerSums
  <2>3. txn.cash[pf] = StartingBankroll + Realized(txn.rows, pf) - Invested(txn.rows, pf)
    BY BalancedSums
  <2>4. StartingBankroll \in Int
    BY ConfigAssumption
  <2>5. txn'.cash[pf] = IF pf = txn.pf THEN txn.cash[pf] - paid ELSE txn.cash[pf]
    BY <1>4, <1>8
  <2>6. Invested(txn'.rows, pf) = Invested(txn.rows, pf) + (IF pf = txn.pf THEN paid ELSE 0)
    BY <1>5, <1>6, <2>1, <2>2
  <2>. HIDE DEF paid
  <2>. QED
    BY <1>6, <2>1, <2>2, <2>3, <2>4, <2>5, <2>6
<1>. QED
  BY <1>9, BalancedSums

\* An exit check credits what the row it overwrites is worth.
LEMMA CheckTradeBalances ==
  ASSUME TypeOK, IInv, NEW n, CheckTrade(n), Balanced(txn.cash, txn.rows)
  PROVE  Balanced(txn'.cash, txn'.rows)
<1>1. txn \in TxnType
  BY DEF TypeOK, CheckTrade
<1>2. PICK q \in Quotes[txn.pf] :
        \E checked \in {ExitCheck(txn, txn.rows[n], q)} :
          txn' = [txn EXCEPT !.open = @ \ {n}, !.rows[n] = checked.row,
                             !.cash[txn.pf] = @ + checked.credit]
  BY DEF CheckTrade
<1> DEFINE check == ExitCheck(txn, txn.rows[n], q)
           row == check.row
           credit == check.credit
           cost == Cost(txn.rows[n]) + txn.rows[n].entryFee
<1>3. n \in DOMAIN txn.rows /\ txn.rows[n].status = "OPEN" /\ txn.rows[n].pf = txn.pf
        /\ IsRow(txn.rows[n])
  <2>1. CycleOK(txn) /\ txn.phase = "exits" /\ n \in txn.open
    BY DEF IInv, CheckTrade
  <2>2. /\ n \in 1..Len(rows) /\ txn.rows[n].status = "OPEN" /\ Len(rows) <= Len(txn.rows)
        /\ Len(rows) \in Nat /\ Len(txn.rows) \in Nat /\ DOMAIN txn.rows = 1..Len(txn.rows)
    BY <2>1, TableLength DEF IInv, CycleOK, OpenListIsOpen, ExtendsTable, TableOK
  <2>. QED
    BY <2>1, <2>2 DEF CycleOK, OpenListIsOpen, TableOK
<1>4. /\ txn.pf \in Portfolios /\ txn.rows \in Seq(RowType) /\ txn.cash \in [Portfolios -> Int]
  BY <1>1, TxnFieldTypes
<1>5. txn.rows[n] \in RowType
  BY <1>3, <1>4, TypedTable
<1>6. /\ row \in RowType /\ credit \in Int
      /\ \/ /\ row.status = "OPEN" /\ credit = 0 /\ row.price = txn.rows[n].price
            /\ row.size = txn.rows[n].size /\ row.entryFee = txn.rows[n].entryFee
         \/ row.status = "CLOSED" /\ row.pnl = credit - cost
  BY <1>1, <1>3, <1>5, ExitCheckType
<1>7. row.pf = txn.pf
  BY <1>3, ExitRow DEF SameDecision
<1>. HIDE DEF check
<1>8. IsLedger(txn.rows)
  BY <1>4, TypedTable DEF IsLedger
<1>9. cost \in Int
  <2>1. Cost(txn.rows[n]) \in Int /\ txn.rows[n].entryFee \in Int
    BY <1>5, CostType DEF RowType
  <2>. QED
    BY <2>1
<1>10. /\ txn'.rows = [txn.rows EXCEPT ![n] = row]
       /\ txn'.cash = [txn.cash EXCEPT ![txn.pf] = @ + credit]
  BY <1>1, <1>2 DEF TxnType, check
<1>11. ASSUME NEW pf \in Portfolios
       PROVE  txn'.cash[pf] = StartingBankroll + Realized(txn'.rows, pf) - Invested(txn'.rows, pf)
  <2> DEFINE new == [txn.rows EXCEPT ![n] = row]
             leaves == row.pf = pf /\ row.status = "CLOSED"
  <2>1. /\ Realized(new, pf) = Realized(txn.rows, pf) + (IF leaves THEN row.pnl ELSE 0)
        /\ Invested(new, pf) = Invested(txn.rows, pf) - (IF leaves THEN cost ELSE 0)
    BY <1>3, <1>6, <1>7, <1>8, OverwriteLedger
  <2>2. Realized(txn.rows, pf) \in Int /\ Invested(txn.rows, pf) \in Int
    BY <1>8, LedgerSums
  <2>3. txn.cash[pf] = StartingBankroll + Realized(txn.rows, pf) - Invested(txn.rows, pf)
    BY BalancedSums
  <2>4. StartingBankroll \in Int
    BY ConfigAssumption
  <2>5. txn'.cash[pf] = IF pf = txn.pf THEN txn.cash[pf] + credit ELSE txn.cash[pf]
    BY <1>4, <1>10
  <2>. HIDE DEF new
  <2>6. Realized(txn'.rows, pf) = Realized(new, pf) /\ Invested(txn'.rows, pf) = Invested(new, pf)
    BY <1>10 DEF new
  <2>. HIDE DEF cost, row, credit
  <2>. QED
    BY <1>6, <1>7, <1>9, <2>1, <2>2, <2>3, <2>4, <2>5, <2>6
<1>. QED
  BY <1>11, BalancedSums

\* Double entry: at every step of every cycle, and after it, the bankroll is what
\* the portfolio started with, plus what its closed trades realized, less what
\* its open ones cost.
THEOREM Balances ==
  ASSUME DriftsBelowPrice, BankrollIsChecked PROVE Spec => []LedgerBalances
<1>1. Init => LedgerBalances
  <2> SUFFICES ASSUME Init, NEW pf \in Portfolios
               PROVE  cash[pf] = StartingBankroll + Realized(rows, pf) - Invested(rows, pf)
    BY BalancedSums DEF LedgerBalances, Init
  <2>1. DOMAIN rows = {}
    BY EmptySeq DEF Init
  <2>2. OfPortfolio(rows, DOMAIN rows, pf, "CLOSED") = {}
          /\ OfPortfolio(rows, DOMAIN rows, pf, "OPEN") = {}
    BY <2>1 DEF OfPortfolio
  <2>3. Realized(rows, pf) = 0 /\ Invested(rows, pf) = 0
    BY <2>2, TotalEmpty DEF Realized, Invested
  <2>. QED
    BY <2>3, ConfigAssumption DEF Init
<1>2. LedgerBalances /\ TypeOK /\ IInv /\ [Next]_vars => LedgerBalances'
  <2> SUFFICES ASSUME LedgerBalances, TypeOK, IInv, [Next]_vars PROVE LedgerBalances'
    OBVIOUS
  <2>1. CASE Services \/ UNCHANGED vars
    <3>1. UNCHANGED <<cash, rows, txn>>
      <4>1. Services => UNCHANGED <<cash, rows, txn>>
        BY ServicesType DEF TypeOK, ServicesOK
      <4>. QED
        BY <2>1, <4>1 DEF vars
    <3>. QED
      BY <3>1 DEF LedgerBalances, Balanced
  <2>2. CASE BeginCycle
    BY <2>2 DEF BeginCycle, LedgerBalances
  <2>3. ASSUME (\E pf \in Portfolios : StartPortfolio(pf))
                 \/ (\E s \in Signals : SkipClosedMarket(s)) \/ StartExits \/ FinishPortfolio
        PROVE  LedgerBalances'
    <3>1. txn # NoTxn /\ txn \in TxnType
      BY <2>3 DEF TypeOK, StartPortfolio, SkipClosedMarket, StartExits, FinishPortfolio
    <3>2. txn'.cash = txn.cash /\ txn'.rows = txn.rows /\ UNCHANGED <<cash, rows>>
      BY <2>3, <3>1 DEF TxnType, StartPortfolio, SkipClosedMarket, StartExits, FinishPortfolio
    <3>. QED
      BY <3>1, <3>2 DEF LedgerBalances
  <2>4. ASSUME NEW s \in Signals, DecideSignal(s) PROVE LedgerBalances'
    <3>1. Balanced(txn'.cash, txn'.rows)
      BY <2>4, DecideSignalBalances DEF LedgerBalances, DecideSignal
    <3>. QED
      BY <2>4, <3>1 DEF LedgerBalances, DecideSignal
  <2>5. ASSUME NEW n, CheckTrade(n) PROVE LedgerBalances'
    <3>1. Balanced(txn'.cash, txn'.rows)
      BY <2>5, CheckTradeBalances DEF LedgerBalances, CheckTrade
    <3>. QED
      BY <2>5, <3>1 DEF LedgerBalances, CheckTrade
  <2>6. CASE CommitCycle \/ FailCycle
    BY <2>6 DEF CommitCycle, FailCycle, LedgerBalances
  <2>. QED
    BY <2>1, <2>2, <2>3, <2>4, <2>5, <2>6 DEF Next, Cycle
<1>. QED
  BY <1>1, <1>2, TypeCorrect, Invariance, PTL DEF Spec

-----------------------------------------------------------------------------
(***************************************************************************)
(* The exposure ceilings hold.                                             *)
(***************************************************************************)

\* What a portfolio holds in some markets is what the guardrails add up.
LEMMA HeldIsUsed ==
  ASSUME NEW t \in TxnType, NEW ms
  PROVE  LET ids == {i \in DOMAIN OpenPositions(t) : OpenPositions(t)[i].market \in ms}
         IN  HeldIn(t.rows, t.pf, ms) = Used(OpenPositions(t), ids)
<1> DEFINE positions == OpenPositions(t)
           all == OfPortfolio(t.rows, DOMAIN t.rows, t.pf, "OPEN")
           ids == {i \in DOMAIN positions : positions[i].market \in ms}
           held == {j \in all : MarketOf[t.rows[j].sig] \in ms}
<1>1. /\ DOMAIN positions = all
      /\ \A i \in all : /\ positions[i].market = MarketOf[t.rows[i].sig]
                        /\ positions[i].notional = Cost(t.rows[i])
  BY DEF OpenPositions
<1>2. ids = held
  BY <1>1
<1>3. [i \in ids |-> positions[i].notional] = [i \in held |-> Cost(t.rows[i])]
  BY <1>1, <1>2
<1>. QED
  BY <1>3 DEF Used, HeldIn

\* A new open row in one of the markets adds what it cost.
LEMMA HeldGrows ==
  ASSUME NEW rs, IsLedger(rs), NEW row \in RowType, row.status = "OPEN", NEW ms,
         MarketOf[row.sig] \in ms
  PROVE  /\ HeldIn(rs, row.pf, ms) \in Int
         /\ HeldIn(Append(rs, row), row.pf, ms) = HeldIn(rs, row.pf, ms) + Cost(row)
<1> DEFINE new == Append(rs, row)
           n == Len(rs) + 1
           pf == row.pf
           before == {j \in OfPortfolio(rs, DOMAIN rs, pf, "OPEN") : MarketOf[rs[j].sig] \in ms}
           after == {j \in OfPortfolio(new, DOMAIN new, pf, "OPEN") : MarketOf[new[j].sig] \in ms}
           f == [i \in before |-> Cost(rs[i])]
           g == [i \in after |-> Cost(new[i])]
<1>1. /\ IsTable(new) /\ DOMAIN rs = 1..Len(rs) /\ Len(rs) \in Nat
      /\ DOMAIN new = 1..n
      /\ \A i \in DOMAIN rs : new[i] = rs[i]
      /\ new[n] = row
  BY AppendRow, TableLength DEF IsLedger
<1>. HIDE DEF new
<1>2. DOMAIN new = DOMAIN rs \cup {n} /\ n \notin DOMAIN rs
  BY <1>1
<1>. HIDE DEF n
<1>3. n \in after /\ before = after \ {n} /\ \A i \in before : new[i] = rs[i]
  BY <1>1, <1>2 DEF OfPortfolio
<1>4. after \subseteq DOMAIN new /\ \A i \in DOMAIN new : new[i] \in RowType
  BY <1>1, <1>2 DEF OfPortfolio, IsLedger
<1>5. IsFiniteSet(after)
  <2>1. IsFiniteSet(1..n)
    BY FS_Interval, <1>1 DEF n
  <2>. QED
    BY <1>1, <1>4, <2>1, FS_Subset
<1>. HIDE DEF before, after
<1>6. \A i \in after : Cost(new[i]) \in Int
  BY <1>4, CostType
<1>7. DOMAIN f = before /\ DOMAIN g = after /\ (\A i \in before : f[i] = g[i]) /\ g[n] = Cost(row)
  BY <1>1, <1>3
<1>8. IsSummable(g)
  BY <1>5, <1>6 DEF IsSummable
<1>9. SumFunction(f) = HeldIn(rs, pf, ms) /\ SumFunction(g) = HeldIn(new, pf, ms)
  BY DEF HeldIn, before, after
<1>. HIDE DEF f, g
<1>10. IsOneMore(f, g, n)
  BY <1>3, <1>7, <1>8 DEF IsOneMore
<1>11. SumFunction(f) \in Int /\ SumFunction(g) = SumFunction(f) + g[n]
  BY <1>10, TotalAdd
<1>. QED
  BY <1>7, <1>9, <1>11 DEF new

\* Together the three ceilings hold after every entry: what an order is cut down
\* to is within what each of them leaves, and it buys no more than it orders.
THEOREM ExposureIsCapped ==
  ASSUME DriftsBelowPrice, BankrollIsChecked PROVE Spec => EntryKeepsExposureCaps
<1> DEFINE Capped(s) ==
      LET cfg == Config[txn.pf]
          bankroll == txn.cash[txn.pf]
          market == MarketOf[s]
      IN  /\ "MAX_MARKET_EXPOSURE" \in cfg.enabled =>
               HeldIn(txn'.rows, txn.pf, {market}) <= Pct(cfg.maxMarketExposurePct, bankroll)
          /\ "MAX_CORRELATED_EXPOSURE" \in cfg.enabled /\ EventOf[market] # NoEvent =>
               HeldIn(txn'.rows, txn.pf, SameEvent(market)) <= Pct(cfg.maxCorrelatedExposurePct, bankroll)
          /\ "MAX_TOTAL_EXPOSURE" \in cfg.enabled =>
               HeldIn(txn'.rows, txn.pf, Markets) <= Pct(cfg.maxExposurePct, bankroll)
<1>1. TypeOK => \A s \in Signals : DecideSignal(s) /\ Last(txn'.rows).status = "OPEN" => Capped(s)
  <2> SUFFICES ASSUME TypeOK, NEW s \in Signals, DecideSignal(s),
                      Last(txn'.rows).status = "OPEN"
               PROVE  Capped(s)
    OBVIOUS
  <2>1. txn \in TxnType
    BY DEF TypeOK, DecideSignal
  <2>2. PICK q \in Quotes[txn.pf], score \in EntryScores(txn, s) :
          \E gate \in {Gate(txn, s)} :
            \E fill \in {ComputeFill(SignalPrice[s], gate.notional, q, Config[txn.pf])} :
              LET row == Decision(txn, s, score, q, gate, fill)
              IN  txn' = [txn EXCEPT !.todo[s] = 0, !.rows = Append(@, row),
                                !.cash[txn.pf] = @ - (Cost(row) + row.entryFee)]
    BY DEF DecideSignal
  <2> DEFINE fill == ComputeFill(SignalPrice[s], Gate(txn, s).notional, q, Config[txn.pf])
             row == Decision(txn, s, score, q, Gate(txn, s), fill)
             notional == Gate(txn, s).notional
             trade == Candidate(txn, s)
             cfg == Config[txn.pf]
             st == RiskState(txn)
             positions == OpenPositions(txn)
             market == MarketOf[s]
             bankroll == txn.cash[txn.pf]
  <2>3. txn.pf \in Portfolios /\ txn.rows \in Seq(RowType)
    BY <2>1, TxnFieldTypes
  <2>4. row \in RowType /\ (row.status = "OPEN" => Cost(row) <= notional)
    BY <2>1, DecisionType
  <2>5. row.pf = txn.pf /\ row.sig = s /\ (row.status = "OPEN" => Gate(txn, s).stage = "FILL")
    BY <2>3, DecisionRow
  <2>. HIDE DEF row
  <2>6. txn'.rows = Append(txn.rows, row)
    BY <2>1, <2>2 DEF TxnType, row
  <2>7. IsLedger(txn.rows)
    BY <2>3, TypedTable DEF IsLedger
  <2>8. row.status = "OPEN"
    <3>1. Last(txn'.rows) = row
      BY <2>6, <2>7, AppendRow DEF Last, IsLedger
    <3>. QED
      BY <3>1
  <2>9. /\ bankroll \in Nat /\ notional \in Nat
        /\ \A i \in Active(trade, cfg) : notional <= Headroom(ApplyRules[i], st, trade, cfg)
    BY <2>1, <2>5, <2>8, GateFill
  <2>10. st.cash = bankroll /\ st.positions = positions
    BY DEF RiskState
  <2>11. trade.market = market /\ trade.event = EventOf[market]
    BY DEF Candidate
  <2>12. /\ DOMAIN ApplyRules = 1..4 /\ ApplyRules[2] = "MAX_TOTAL_EXPOSURE"
         /\ ApplyRules[3] = "MAX_MARKET_EXPOSURE" /\ ApplyRules[4] = "MAX_CORRELATED_EXPOSURE"
    BY DEF ApplyRules
  <2>13. Cost(row) \in Int
    BY <2>4, CostType
  <2>14. \A i \in DOMAIN positions :
           \E r \in Signals : /\ positions[i].market = MarketOf[r]
                              /\ positions[i].event = EventOf[MarketOf[r]]
    <3>1. \A i \in DOMAIN txn.rows : txn.rows[i].sig \in Signals
      BY <2>7 DEF IsLedger, RowType
    <3>2. \A i \in DOMAIN positions :
            /\ i \in DOMAIN txn.rows
            /\ positions[i].market = MarketOf[txn.rows[i].sig]
            /\ positions[i].event = EventOf[MarketOf[txn.rows[i].sig]]
      BY DEF OpenPositions, OfPortfolio
    <3>. QED
      BY <3>1, <3>2
  <2>15. market \in Markets /\ \A r \in Signals : MarketOf[r] \in Markets
    BY ConfigAssumption
  <2>16. ASSUME NEW ms, market \in ms
         PROVE  LET ids == {i \in DOMAIN positions : positions[i].market \in ms}
                IN  /\ Used(positions, ids) \in Int
                    /\ HeldIn(txn'.rows, txn.pf, ms) = Used(positions, ids) + Cost(row)
    <3>1. /\ HeldIn(txn.rows, txn.pf, ms) \in Int
          /\ HeldIn(Append(txn.rows, row), txn.pf, ms) = HeldIn(txn.rows, txn.pf, ms) + Cost(row)
      BY <2>4, <2>5, <2>7, <2>8, <2>16, HeldGrows
    <3>2. LET ids == {i \in DOMAIN positions : positions[i].market \in ms}
          IN  HeldIn(txn.rows, txn.pf, ms) = Used(positions, ids)
      BY <2>1, HeldIsUsed
    <3>. QED
      BY <2>6, <3>1, <3>2
  <2>17. ASSUME NEW i \in 2..4, i \in Active(trade, cfg), NEW ms, market \in ms,
                InScope(ApplyRules[i], positions, trade)
                  = {j \in DOMAIN positions : positions[j].market \in ms}
         PROVE  HeldIn(txn'.rows, txn.pf, ms) <= Pct(CapPct(ApplyRules[i], cfg), bankroll)
    <3> DEFINE used == Used(positions, InScope(ApplyRules[i], positions, trade))
               cap == Pct(CapPct(ApplyRules[i], cfg), bankroll)
    <3>1. used \in Int /\ HeldIn(txn'.rows, txn.pf, ms) = used + Cost(row)
      BY <2>16, <2>17
    <3>2. notional <= cap - used
      BY <2>9, <2>10, <2>17 DEF Headroom
    <3>3. cap \in Int
      <4>1. CapPct(ApplyRules[i], cfg) \in Nat
        <5>1. {"maxExposurePct", "maxMarketExposurePct", "maxCorrelatedExposurePct"}
                \subseteq Fractions
          BY DEF Fractions
        <5>2. /\ cfg["maxExposurePct"] \in 0..100 /\ cfg["maxMarketExposurePct"] \in 0..100
              /\ cfg["maxCorrelatedExposurePct"] \in 0..100
          BY <2>3, <5>1, FractionType
        <5>. QED
          BY <2>12, <5>2 DEF CapPct
      <4>. QED
        BY <2>9, <4>1, PctType
    <3>. HIDE DEF used, cap, notional
    <3>. QED
      BY <2>4, <2>8, <2>9, <2>13, <3>1, <3>2, <3>3 DEF cap
  <2>. HIDE DEF trade, st, positions, bankroll, cfg, market
  <2>18. ASSUME "MAX_MARKET_EXPOSURE" \in cfg.enabled
         PROVE  HeldIn(txn'.rows, txn.pf, {market}) <= Pct(cfg.maxMarketExposurePct, bankroll)
    <3>1. 3 \in Active(trade, cfg)
      BY <2>12, <2>18 DEF Active, Enabled
    <3>2. InScope(ApplyRules[3], positions, trade)
            = {j \in DOMAIN positions : positions[j].market \in {market}}
      BY <2>11, <2>12 DEF InScope
    <3>3. CapPct(ApplyRules[3], cfg) = cfg.maxMarketExposurePct
      BY <2>12 DEF CapPct
    <3>. QED
      BY <2>17, <3>1, <3>2, <3>3
  <2>19. ASSUME "MAX_CORRELATED_EXPOSURE" \in cfg.enabled, EventOf[market] # NoEvent
         PROVE  HeldIn(txn'.rows, txn.pf, SameEvent(market))
                  <= Pct(cfg.maxCorrelatedExposurePct, bankroll)
    <3>1. 4 \in Active(trade, cfg)
      BY <2>11, <2>12, <2>19 DEF Active, Enabled
    <3>2. InScope(ApplyRules[4], positions, trade)
            = {j \in DOMAIN positions : positions[j].market \in SameEvent(market)}
      <4>1. \A j \in DOMAIN positions :
              positions[j].event = EventOf[market] <=> positions[j].market \in SameEvent(market)
        BY <2>14, <2>15 DEF SameEvent
      <4>. QED
        BY <2>11, <2>12, <4>1 DEF InScope
    <3>3. CapPct(ApplyRules[4], cfg) = cfg.maxCorrelatedExposurePct
      BY <2>12 DEF CapPct
    <3>4. market \in SameEvent(market)
      BY <2>15 DEF SameEvent
    <3>. QED
      BY <2>17, <3>1, <3>2, <3>3, <3>4
  <2>20. ASSUME "MAX_TOTAL_EXPOSURE" \in cfg.enabled
         PROVE  HeldIn(txn'.rows, txn.pf, Markets) <= Pct(cfg.maxExposurePct, bankroll)
    <3>1. 2 \in Active(trade, cfg)
      BY <2>12, <2>20 DEF Active, Enabled
    <3>2. InScope(ApplyRules[2], positions, trade)
            = {j \in DOMAIN positions : positions[j].market \in Markets}
      BY <2>12, <2>14, <2>15 DEF InScope
    <3>3. CapPct(ApplyRules[2], cfg) = cfg.maxExposurePct
      BY <2>12 DEF CapPct
    <3>. QED
      BY <2>15, <2>17, <3>1, <3>2, <3>3
  <2>. QED
    BY <2>18, <2>19, <2>20 DEF cfg, bankroll, market
<1>2. TypeOK /\ [Next]_vars =>
        [ \A s \in Signals : DecideSignal(s) /\ Last(txn'.rows).status = "OPEN" =>
            LET cfg == Config[txn.pf]
                bankroll == txn.cash[txn.pf]
                market == MarketOf[s]
            IN  /\ "MAX_MARKET_EXPOSURE" \in cfg.enabled =>
                     HeldIn(txn'.rows, txn.pf, {market}) <= Pct(cfg.maxMarketExposurePct, bankroll)
                /\ "MAX_CORRELATED_EXPOSURE" \in cfg.enabled /\ EventOf[market] # NoEvent =>
                     HeldIn(txn'.rows, txn.pf, SameEvent(market)) <= Pct(cfg.maxCorrelatedExposurePct, bankroll)
                /\ "MAX_TOTAL_EXPOSURE" \in cfg.enabled =>
                     HeldIn(txn'.rows, txn.pf, Markets) <= Pct(cfg.maxExposurePct, bankroll) ]_vars
  BY <1>1
<1>. QED
  BY <1>2, TypeCorrect, PTL DEF Spec, EntryKeepsExposureCaps
=============================================================================
