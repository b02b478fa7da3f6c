----------------------- MODULE SignalGenerationProofs -----------------------
(***************************************************************************)
(* Theorems about signal generation, for every set of wallets, tokens,     *)
(* markets and worker threads and every setting of the consensus.          *)
(*                                                                         *)
(* The inductive invariant follows a draft from the load that evaluated it *)
(* to the row it becomes or reinforces: what clears the filters is backed  *)
(* by enough clusters, and as long as no cycle has timed out only the      *)
(* awaited one runs, whose drafts are of different tokens and whose SELECT *)
(* misses no ACTIVE row.  The types come on top of it: that a score is a   *)
(* natural number takes the evaluation apart, down to the median holding   *)
(* period of the wallets.                                                  *)
(***************************************************************************)
EXTENDS SignalGeneration, Sums, SequenceTheorems, FiniteSetTheorems, FunctionTheorems, TLAPS

\* The clusters with an event on a token that was fresh at time t.
BackersIn(evs, a, t) ==
  {ClusterOf(e.wallet) : e \in {x \in evs : x.asset = a /\ x.at >= t - Freshness}}

Supported(evs, a, t) == Cardinality(BackersIn(evs, a, t)) >= MinTraders

RowSupported(evs, r) == \A t \in {r.created, r.updated} : Supported(evs, r.asset, t)

IsTable(rs) == rs \in Seq({rs[i] : i \in DOMAIN rs})

RowFields == {"asset", "status", "traders", "score", "created", "updated"}

CycleFields == {"at", "phase", "expired", "drafts", "applied"}

RowsOK ==
  /\ IsFiniteSet(events)
  /\ IsTable(rows)
  /\ \A i \in DOMAIN rows : DOMAIN rows[i] = RowFields /\ RowSupported(events, rows[i])

\* What a cycle has drafted and applied is supported, and a draft that found a
\* row found one on its token.
CycleSupported(c) ==
  /\ DOMAIN cycle[c] = CycleFields /\ IsFiniteSet(cycle[c].applied)
  /\ \A d \in cycle[c].drafts : Supported(events, d.asset, cycle[c].at)
  /\ \A x \in cycle[c].applied :
       /\ Supported(events, x.draft.asset, cycle[c].at)
       /\ x.row # NotFound => x.row \in DOMAIN rows /\ rows[x.row].asset = x.draft.asset

CyclesOK ==
  /\ cycle = [c \in Threads |-> cycle[c]]
  /\ \A c \in Threads : Running(c) => CycleSupported(c)

\* A cycle has one draft for a token, and inserts only if no ACTIVE row is left.
CycleAlone(c) ==
  /\ cycle[c].phase # "apply" => cycle[c].drafts = {} /\ cycle[c].applied = {}
  /\ \A d, e \in cycle[c].drafts : d.asset = e.asset => d = e
  /\ \A x, y \in cycle[c].applied : x.draft.asset = y.draft.asset => x = y
  /\ \A d \in cycle[c].drafts, x \in cycle[c].applied : d.asset # x.draft.asset
  /\ \A x \in cycle[c].applied : x.row = NotFound =>
       \A i \in DOMAIN rows \ cycle[c].expired :
         rows[i].status = "ACTIVE" => rows[i].asset # x.draft.asset

AloneOK ==
  /\ timeouts \in Nat
  /\ timeouts = 0 =>
       /\ OneActiveSignal
       /\ \A c \in Threads : Running(c) => awaited = c /\ awaited # NoCycle /\ CycleAlone(c)

IInv == RowsOK /\ CyclesOK /\ AloneOK

-----------------------------------------------------------------------------
(***************************************************************************)
(* Lemmas about support and tables.                                        *)
(***************************************************************************)

\* An image of a finite set is finite.
LEMMA BackersFinite ==
  ASSUME NEW evs, IsFiniteSet(evs), NEW a, NEW t
  PROVE  IsFiniteSet(BackersIn(evs, a, t))
<1> DEFINE F == {x \in evs : x.asset = a /\ x.at >= t - Freshness}
           f == [e \in F |-> ClusterOf(e.wallet)]
<1>1. IsFiniteSet(F)
  BY FS_Subset
<1>2. f \in Surjection(F, BackersIn(evs, a, t))
  BY DEF Surjection, BackersIn
<1>. HIDE DEF F, f
<1>. QED
  BY <1>1, <1>2, FS_Surjection

\* Events are never taken back, and so is no support.
LEMMA SupportGrows ==
  ASSUME NEW evs, NEW more, IsFiniteSet(more), evs \subseteq more, NEW a, NEW t,
         Supported(evs, a, t)
  PROVE  Supported(more, a, t)
<1>1. IsFiniteSet(BackersIn(more, a, t))
  BY BackersFinite
<1>2. BackersIn(evs, a, t) \subseteq BackersIn(more, a, t)
  BY DEF BackersIn
<1>3. /\ Cardinality(BackersIn(evs, a, t)) \in Nat /\ Cardinality(BackersIn(more, a, t)) \in Nat
      /\ Cardinality(BackersIn(evs, a, t)) <= Cardinality(BackersIn(more, a, t))
  BY <1>1, <1>2, FS_Subset, FS_CardinalityType
<1>. QED
  BY <1>3, GenerationSettings DEF Supported

\* A group that clears the filters has a cluster for every voice.
LEMMA ClearedIsSupported ==
  ASSUME IsFiniteSet(events), NEW c, NEW a, NEW isClosed, NEW q,
         Clears(Group(c, a), isClosed, q)
  PROVE  Supported(events, a, cycle[c].at)
<1> DEFINE G == Group(c, a)
           B == BackersIn(events, a, cycle[c].at)
           f == [k \in B |-> {e \in G : ClusterOf(e.wallet) = k}]
<1>1. B = {ClusterOf(e.wallet) : e \in G}
  BY DEF BackersIn, Group
<1>2. f \in Surjection(B, Voices(G))
  BY <1>1 DEF Surjection, Voices
<1>3. IsFiniteSet(B)
  BY BackersFinite
<1>. HIDE DEF G, B, f
<1>4. Cardinality(Voices(G)) <= Cardinality(B) /\ IsFiniteSet(Voices(G))
  BY <1>2, <1>3, FS_Surjection
<1>5. Cardinality(Voices(G)) >= MinTraders
  BY DEF G, Clears
<1>6. Cardinality(Voices(G)) \in Nat /\ Cardinality(B) \in Nat
  BY <1>3, <1>4, FS_CardinalityType
<1>7. Cardinality(B) >= MinTraders
  BY <1>4, <1>5, <1>6, GenerationSettings
<1>. QED
  BY <1>7 DEF Supported, B

\* A function on 1..n is a table, whatever its rows are.
LEMMA FunctionIsTable ==
  ASSUME NEW f, NEW n \in Nat, DOMAIN f = 1..n, f = [i \in 1..n |-> f[i]]
  PROVE  IsTable(f) /\ Len(f) = n
<1> DEFINE T == {f[i] : i \in DOMAIN f}
<1>1. f \in [1..n -> T]
  OBVIOUS
<1>. HIDE DEF T
<1>2. f \in Seq(T)
  BY <1>1, SeqDef
<1>3. Len(f) \in Nat /\ DOMAIN f = 1..Len(f)
  BY <1>2, LenProperties
<1>4. Len(f) = n
  BY <1>3
<1>. QED
  BY <1>2, <1>4 DEF IsTable, T

\* A table is a sequence with an index for each of its rows.
LEMMA TableLength ==
  ASSUME NEW rs, IsTable(rs)
  PROVE  Len(rs) \in Nat /\ DOMAIN rs = 1..Len(rs) /\ rs = [i \in 1..Len(rs) |-> rs[i]]
BY LenProperties DEF IsTable

\* Two tables after each other are a table.
LEMMA TablesConcatenated ==
  ASSUME NEW r, NEW s, IsTable(r), IsTable(s)
  PROVE  /\ IsTable(r \o s)
         /\ DOMAIN (r \o s) = 1..(Len(r) + Len(s))
         /\ \A i \in 1..Len(r) : (r \o s)[i] = r[i]
         /\ \A k \in 1..Len(s) : (r \o s)[Len(r) + k] = s[k]
<1> DEFINE S == {r[i] : i \in DOMAIN r} \cup {s[i] : i \in DOMAIN s}
<1>1. r \in Seq(S) /\ s \in Seq(S)
  BY SeqMonotonic DEF IsTable
<1>2. Len(r) \in Nat /\ Len(s) \in Nat
  BY TableLength
<1>. HIDE DEF S
<1>3. /\ r \o s \in Seq(S) /\ Len(r \o s) = Len(r) + Len(s)
      /\ \A i \in 1..(Len(r) + Len(s)) :
           (r \o s)[i] = IF i <= Len(r) THEN r[i] ELSE s[i - Len(r)]
  BY <1>1, ConcatProperties
<1>4. DOMAIN (r \o s) = 1..(Len(r) + Len(s)) /\ r \o s = [i \in 1..(Len(r) + Len(s)) |-> (r \o s)[i]]
  BY <1>3, LenProperties
<1>5. IsTable(r \o s)
  BY <1>2, <1>4, FunctionIsTable
<1>6. \A i \in 1..Len(r) : (r \o s)[i] = r[i]
  BY <1>2, <1>3
<1>7. ASSUME NEW k \in 1..Len(s) PROVE (r \o s)[Len(r) + k] = s[k]
  <2>1. Len(r) + k \in 1..(Len(r) + Len(s)) /\ ~(Len(r) + k <= Len(r)) /\ (Len(r) + k) - Len(r) = k
    BY <1>2
  <2>. QED
    BY <1>3, <2>1
<1>. QED
  BY <1>4, <1>5, <1>6, <1>7

-----------------------------------------------------------------------------
(***************************************************************************)
(* The steps.                                                              *)
(***************************************************************************)
LEMMA IInvInit == Init => IInv
<1> SUFFICES ASSUME Init PROVE IInv
  OBVIOUS
<1>. USE DEF Init
<1>1. IsTable(rows) /\ DOMAIN rows = {}
  BY EmptySeq DEF IsTable
<1>2. RowsOK
  BY <1>1, FS_EmptySet DEF RowsOK
<1>3. \A c \in Threads : ~Running(c)
  BY DEF Running
<1>4. CyclesOK
  BY <1>3 DEF CyclesOK
<1>5. OneActiveSignal
  BY <1>1 DEF OneActiveSignal
<1>6. AloneOK
  BY <1>3, <1>5 DEF AloneOK
<1>. QED
  BY <1>2, <1>4, <1>6 DEF IInv

\* The collectors and the clock touch neither the signals nor the cycles.
LEMMA EventsKeepIInv ==
  ASSUME IInv, events \subseteq events', IsFiniteSet(events'),
         UNCHANGED <<rows, cycle, awaited, timeouts>>
  PROVE  IInv'
<1>. USE DEF IInv
<1>1. RowsOK'
  BY SupportGrows DEF RowsOK, RowSupported
<1>2. CyclesOK'
  BY SupportGrows DEF CyclesOK, CycleSupported, Running
<1>3. AloneOK'
  BY DEF AloneOK, CycleAlone, Running, OneActiveSignal
<1>. QED
  BY <1>1, <1>2, <1>3

\* The collectors and the clock write no signal.
LEMMA CollectorsKeepIInv == IInv /\ (Collectors \/ Tick) => IInv'
<1> SUFFICES ASSUME IInv, Collectors \/ Tick PROVE IInv'
  OBVIOUS
<1>1. IsFiniteSet(events)
  BY DEF IInv, RowsOK
<1>2. ASSUME NEW w \in Wallets, NEW a \in Assets, DetectEvent(w, a) PROVE IInv'
  <2>1. events' = events \cup {[wallet |-> w, asset |-> a, at |-> now]}
    BY <1>2 DEF DetectEvent
  <2>2. IsFiniteSet(events') /\ events \subseteq events'
    BY <1>1, <2>1, FS_AddElement
  <2>. QED
    BY <1>2, <2>2, EventsKeepIInv DEF DetectEvent
<1>3. ASSUME NEW m \in Markets, CloseMarket(m) PROVE IInv'
  BY <1>1, <1>3, EventsKeepIInv DEF CloseMarket
<1>4. CASE Tick
  BY <1>1, <1>4, EventsKeepIInv DEF Tick
<1>. QED
  BY <1>2, <1>3, <1>4 DEF Collectors

\* One thread's cycle changes; the others go on with what they have.
LEMMA OtherCycles ==
  ASSUME IInv, NEW c \in Threads, NEW new, cycle' = [cycle EXCEPT ![c] = new],
         UNCHANGED <<events, rows>>, Running(c)' => CycleSupported(c)'
  PROVE  RowsOK' /\ CyclesOK'
<1>. USE DEF IInv
<1>1. RowsOK'
  BY DEF RowsOK
<1>2. \A d \in Threads : d # c => cycle'[d] = cycle[d]
  BY DEF CyclesOK
<1>3. cycle' = [d \in Threads |-> cycle'[d]]
  BY DEF CyclesOK
<1>4. ASSUME NEW d \in Threads, Running(d)' PROVE CycleSupported(d)'
  <2>1. CASE d = c
    BY <1>4, <2>1
  <2>2. CASE d # c
    BY <1>2, <1>4, <2>2 DEF CyclesOK, CycleSupported, Running
  <2>. QED
    BY <2>1, <2>2
<1>. QED
  BY <1>1, <1>3, <1>4 DEF CyclesOK

\* Before any timeout the running cycle is the awaited one, and the only one.
LEMMA AloneKept ==
  ASSUME IInv, NEW c \in Threads, NEW new, cycle' = [cycle EXCEPT ![c] = new],
         UNCHANGED <<rows, awaited, timeouts>>, Running(c),
         timeouts = 0 /\ CycleAlone(c) => CycleAlone(c)'
  PROVE  AloneOK'
<1>. USE DEF IInv
<1>1. \A d \in Threads : d # c => cycle'[d] = cycle[d]
  BY DEF CyclesOK
<1>2. ASSUME timeouts = 0, NEW d \in Threads, Running(d)'
      PROVE  awaited = d /\ awaited # NoCycle /\ CycleAlone(d)'
  <2>1. awaited = c /\ awaited # NoCycle /\ CycleAlone(c)
    BY <1>2 DEF AloneOK
  <2>2. d = c
    BY <1>1, <1>2, <2>1 DEF AloneOK, Running
  <2>. QED
    BY <1>2, <2>1, <2>2
<1>. QED
  BY <1>2 DEF AloneOK, OneActiveSignal

\* A cycle begins with empty hands.
LEMMA BeginCycleKeepsIInv ==
  ASSUME IInv, NEW c \in Threads, BeginCycle(c)
  PROVE  IInv'
<1>. USE DEF IInv
<1> DEFINE new == [at |-> now, phase |-> "expire", expired |-> {}, drafts |-> {}, applied |-> {}]
<1>1. /\ cycle' = [cycle EXCEPT ![c] = new] /\ awaited = NoCycle /\ awaited' = c
      /\ UNCHANGED <<events, rows, timeouts>> /\ ~Running(c)
  BY DEF BeginCycle
<1>2. cycle'[c] = new
  BY <1>1 DEF CyclesOK
<1>3. CycleSupported(c)' /\ CycleAlone(c)'
  BY <1>2, FS_EmptySet DEF CycleSupported, CycleAlone, CycleFields
<1>4. RowsOK' /\ CyclesOK'
  BY <1>1, <1>3, OtherCycles
<1>5. AloneOK'
  <2>1. ASSUME timeouts = 0, NEW d \in Threads, Running(d)'
        PROVE  awaited' = d /\ awaited' # NoCycle /\ CycleAlone(d)'
    <3>1. d = c
      BY <1>1, <2>1 DEF AloneOK, Running, CyclesOK
    <3>. QED
      BY <1>1, <1>3, <2>1, <3>1, NoCycleIsNoCycle
  <2>. QED
    BY <1>1, <2>1 DEF AloneOK, OneActiveSignal
<1>. QED
  BY <1>4, <1>5

\* The sweep only locks rows and notes them.
LEMMA ExpireSignalsKeepsIInv ==
  ASSUME IInv, NEW c \in Threads, ExpireSignals(c)
  PROVE  IInv'
<1>. USE DEF IInv
<1> DEFINE new == [cycle[c] EXCEPT !.phase = "load", !.expired = Due(c)]
<1>1. /\ cycle' = [cycle EXCEPT ![c] = new] /\ Running(c)
      /\ UNCHANGED <<events, rows, awaited, timeouts>> /\ cycle[c].phase = "expire"
  BY DEF ExpireSignals
<1>2. CycleSupported(c)
  BY <1>1 DEF CyclesOK
<1>3. /\ cycle'[c].drafts = cycle[c].drafts /\ cycle'[c].at = cycle[c].at
      /\ cycle'[c].applied = cycle[c].applied /\ DOMAIN cycle'[c] = CycleFields
  BY <1>1, <1>2 DEF CyclesOK, CycleSupported, CycleFields
<1>4. CycleSupported(c)'
  BY <1>1, <1>2, <1>3 DEF CycleSupported
<1>5. CycleAlone(c) => CycleAlone(c)'
  BY <1>1, <1>3 DEF CycleAlone
<1>. HIDE DEF new
<1>6. RowsOK' /\ CyclesOK'
  BY <1>1, <1>4, OtherCycles
<1>7. AloneOK'
  BY <1>1, <1>5, AloneKept
<1>. QED
  BY <1>6, <1>7

\* Every draft of a load has cleared the filters, and is of a token of its own.
LEMMA LoadGroupsKeepsIInv ==
  ASSUME IInv, NEW c \in Threads, LoadGroups(c)
  PROVE  IInv'
<1>. USE DEF IInv
<1>1. PICK quote \in [Markets -> Quotes] :
        cycle' = [cycle EXCEPT
          ![c].phase = "apply",
          ![c].drafts =
            {[asset |-> a, traders |-> Cardinality(Voices(Group(c, a))),
              score |-> WeightedScore(Group(c, a))] :
               a \in {b \in Assets :
                        Clears(Group(c, b), MarketOf[b] \in closed, quote[MarketOf[b]])}}]
  BY DEF LoadGroups
<1> DEFINE cleared ==
             {b \in Assets : Clears(Group(c, b), MarketOf[b] \in closed, quote[MarketOf[b]])}
           Draft(a) == [asset |-> a, traders |-> Cardinality(Voices(Group(c, a))),
                        score |-> WeightedScore(Group(c, a))]
           drafts == {Draft(a) : a \in cleared}
           new == [cycle[c] EXCEPT !.phase = "apply", !.drafts = drafts]
<1>2. ASSUME NEW d \in drafts PROVE Supported(events, d.asset, cycle[c].at)
  <2>1. PICK a \in cleared : d = Draft(a)
    OBVIOUS
  <2>2. Supported(events, a, cycle[c].at)
    <3>1. Clears(Group(c, a), MarketOf[a] \in closed, quote[MarketOf[a]])
      BY <2>1
    <3>2. IsFiniteSet(events)
      BY DEF RowsOK
    <3>. QED
      BY <3>1, <3>2, ClearedIsSupported
  <2>3. d.asset = a
    BY <2>1
  <2>. QED
    BY <2>2, <2>3
<1>3. \A d, e \in drafts : d.asset = e.asset => d = e
  <2>1. ASSUME NEW a \in cleared, NEW b \in cleared, Draft(a).asset = Draft(b).asset
        PROVE  Draft(a) = Draft(b)
    <3>1. a = b
      BY <2>1
    <3>. QED
      BY <3>1
  <2>. HIDE DEF Draft, cleared
  <2>. QED
    BY <2>1
<1>4. cycle' = [cycle EXCEPT ![c] = new]
  BY <1>1
<1>. HIDE DEF drafts
<1>5. /\ Running(c) /\ cycle[c].phase = "load"
      /\ UNCHANGED <<events, rows, awaited, timeouts>>
  BY DEF LoadGroups
<1>6. CycleSupported(c)
  BY <1>5 DEF CyclesOK
<1>7. /\ cycle'[c].drafts = drafts /\ cycle'[c].at = cycle[c].at
      /\ cycle'[c].applied = cycle[c].applied /\ cycle'[c].expired = cycle[c].expired
      /\ cycle'[c].phase = "apply" /\ DOMAIN cycle'[c] = CycleFields
  BY <1>4, <1>6 DEF CyclesOK, CycleSupported, CycleFields
<1>8. CycleSupported(c)'
  BY <1>2, <1>5, <1>6, <1>7 DEF CycleSupported
<1>9. CycleAlone(c) => CycleAlone(c)'
  <2>1. ASSUME CycleAlone(c) PROVE cycle[c].applied = {}
    BY <1>5, <2>1 DEF CycleAlone
  <2>. QED
    BY <1>3, <1>5, <1>7, <2>1 DEF CycleAlone
<1>. HIDE DEF new
<1>10. RowsOK' /\ CyclesOK'
  BY <1>4, <1>5, <1>8, OtherCycles
<1>11. AloneOK'
  BY <1>4, <1>5, <1>9, AloneKept
<1>. QED
  BY <1>10, <1>11

\* A draft is applied to a row on its token, or to none if the SELECT finds none.
LEMMA ApplyDraftKeepsIInv ==
  ASSUME IInv, NEW c \in Threads, NEW draft, ApplyDraft(c, draft)
  PROVE  IInv'
<1>. USE DEF IInv
<1>1. PICK i \in IF Existing(c, draft.asset) = {} THEN {NotFound} ELSE Existing(c, draft.asset) :
        cycle' = [cycle EXCEPT ![c].drafts = @ \ {draft},
                               ![c].applied = @ \cup {[draft |-> draft, row |-> i]}]
  BY DEF ApplyDraft
<1> DEFINE x == [draft |-> draft, row |-> i]
           new == [cycle[c] EXCEPT !.drafts = @ \ {draft}, !.applied = @ \cup {x}]
<1>2. /\ Running(c) /\ cycle[c].phase = "apply" /\ draft \in cycle[c].drafts
      /\ UNCHANGED <<events, rows, awaited, timeouts>>
  BY DEF ApplyDraft
<1>3. CycleSupported(c)
  BY <1>2 DEF CyclesOK
<1>4. cycle' = [cycle EXCEPT ![c] = new]
  BY <1>1
<1>5. /\ cycle'[c].drafts = cycle[c].drafts \ {draft} /\ cycle'[c].at = cycle[c].at
      /\ cycle'[c].applied = cycle[c].applied \cup {x} /\ cycle'[c].expired = cycle[c].expired
      /\ cycle'[c].phase = "apply" /\ DOMAIN cycle'[c] = CycleFields
  BY <1>2, <1>3, <1>4 DEF CyclesOK, CycleSupported, CycleFields
<1>6. x.draft = draft /\ x.row = i
  OBVIOUS
<1>7. i # NotFound => i \in DOMAIN rows /\ rows[i].asset = draft.asset
  BY DEF Existing
<1>8. i = NotFound => Existing(c, draft.asset) = {}
  <2>1. NotFound \notin DOMAIN rows
    BY TableLength DEF RowsOK, NotFound
  <2>. QED
    BY <1>1, <2>1 DEF Existing
<1>. HIDE DEF x, new
<1>9. CycleSupported(c)'
  <2>1. IsFiniteSet(cycle'[c].applied)
    BY <1>3, <1>5, FS_AddElement DEF CycleSupported
  <2>. QED
    BY <1>2, <1>3, <1>5, <1>6, <1>7, <2>1 DEF CycleSupported
<1>10. CycleAlone(c) => CycleAlone(c)'
  <2> SUFFICES ASSUME CycleAlone(c) PROVE CycleAlone(c)'
    OBVIOUS
  <2>1. \A y \in cycle[c].applied : draft.asset # y.draft.asset
    BY <1>2 DEF CycleAlone
  <2>2. \A d \in cycle'[c].drafts : d.asset # draft.asset
    BY <1>2, <1>5 DEF CycleAlone
  <2>3. \A d, e \in cycle'[c].drafts : d.asset = e.asset => d = e
    BY <1>5 DEF CycleAlone
  <2>4. \A y, z \in cycle'[c].applied : y.draft.asset = z.draft.asset => y = z
    BY <1>5, <1>6, <2>1 DEF CycleAlone
  <2>5. \A d \in cycle'[c].drafts, y \in cycle'[c].applied : d.asset # y.draft.asset
    BY <1>5, <1>6, <2>2 DEF CycleAlone
  <2>6. ASSUME NEW y \in cycle'[c].applied, y.row = NotFound,
               NEW j \in DOMAIN rows \ cycle[c].expired, rows[j].status = "ACTIVE"
        PROVE  rows[j].asset # y.draft.asset
    <3>1. CASE y \in cycle[c].applied
      BY <2>6, <3>1 DEF CycleAlone
    <3>2. CASE y = x
      BY <1>6, <1>8, <2>6, <3>2 DEF Existing
    <3>. QED
      BY <1>5, <2>6, <3>1, <3>2
  <2>. QED
    BY <1>2, <1>5, <2>3, <2>4, <2>5, <2>6 DEF CycleAlone
<1>11. RowsOK' /\ CyclesOK'
  BY <1>2, <1>4, <1>9, OtherCycles
<1>12. AloneOK'
  BY <1>2, <1>4, <1>10, AloneKept
<1>. QED
  BY <1>11, <1>12

\* A row keeps its token; it is reinforced by a draft that is supported, and is
\* ACTIVE only if it was and the cycle's sweep did not take it.
LEMMA RewrittenRow ==
  ASSUME IInv, NEW c \in Threads, Running(c), NEW i \in DOMAIN rows
  PROVE  /\ DOMAIN Rewritten(c, i) = RowFields
         /\ Rewritten(c, i).asset = rows[i].asset
         /\ RowSupported(events, Rewritten(c, i))
         /\ Rewritten(c, i).status = "ACTIVE" => rows[i].status = "ACTIVE" /\ i \notin cycle[c].expired
<1>. USE DEF IInv
<1> DEFINE swept == IF i \in cycle[c].expired THEN [rows[i] EXCEPT !.status = "EXPIRED"] ELSE rows[i]
<1>1. DOMAIN rows[i] = RowFields /\ RowSupported(events, rows[i])
  BY DEF RowsOK
<1>2. /\ DOMAIN swept = RowFields /\ swept.asset = rows[i].asset
      /\ swept.created = rows[i].created /\ swept.updated = rows[i].updated
      /\ swept.status = "ACTIVE" => rows[i].status = "ACTIVE" /\ i \notin cycle[c].expired
  BY <1>1 DEF RowFields
<1>. HIDE DEF swept
<1>3. CASE \E x \in Reinforced(c) : x.row = i
  <2> DEFINE x == CHOOSE x \in Reinforced(c) : x.row = i
             row == [swept EXCEPT !.traders = x.draft.traders, !.score = x.draft.score,
                                  !.updated = cycle[c].at]
  <2>1. x \in Reinforced(c) /\ x.row = i
    BY <1>3
  <2>2. Rewritten(c, i) = row
    BY <1>3 DEF Rewritten, swept
  <2>. HIDE DEF x
  <2>3. rows[i].asset = x.draft.asset /\ Supported(events, x.draft.asset, cycle[c].at)
    BY <2>1 DEF Reinforced, CyclesOK, CycleSupported
  <2>4. /\ DOMAIN row = RowFields /\ row.asset = rows[i].asset
        /\ row.created = rows[i].created /\ row.updated = cycle[c].at
        /\ row.status = swept.status
    BY <1>2 DEF RowFields
  <2>. HIDE DEF row
  <2>5. RowSupported(events, row)
    BY <1>1, <2>3, <2>4 DEF RowSupported
  <2>. QED
    BY <1>2, <2>2, <2>4, <2>5
<1>4. CASE ~ \E x \in Reinforced(c) : x.row = i
  <2>1. Rewritten(c, i) = swept
    BY <1>4 DEF Rewritten, swept
  <2>2. RowSupported(events, swept)
    BY <1>1, <1>2 DEF RowSupported
  <2>. QED
    BY <1>2, <2>1, <2>2
<1>. QED
  BY <1>3, <1>4

\* The rows a commit inserts: each draft once, in any order.
LEMMA InsertedRows ==
  ASSUME IInv, NEW c \in Threads, Running(c), NEW new \in SetToAllKPermutations(Created(c))
  PROVE  /\ \E n \in Nat : DOMAIN new = 1..n
         /\ \A k \in DOMAIN new : new[k] \in Created(c)
         /\ \A k, l \in DOMAIN new : new[k] = new[l] => k = l
<1>. USE DEF IInv
<1>1. PICK S \in SUBSET Created(c) : new \in SetToSeqs(S)
  BY DEF SetToAllKPermutations
<1> DEFINE A == cycle[c].applied \ Reinforced(c)
           f == [x \in A |-> x.draft]
<1>2. IsFiniteSet(A)
  BY FS_Difference DEF CyclesOK, CycleSupported
<1>3. f \in Surjection(A, Created(c))
  BY DEF Surjection, Created
<1>. HIDE DEF A, f
<1>4. IsFiniteSet(S)
  BY <1>2, <1>3, FS_Surjection, FS_Subset
<1>5. Cardinality(S) \in Nat
  BY <1>4, FS_CardinalityType
<1>6. /\ new \in [1..Cardinality(S) -> S]
      /\ \A k, l \in 1..Cardinality(S) : k # l => new[k] # new[l]
  BY <1>1 DEF SetToSeqs
<1>. QED
  BY <1>1, <1>5, <1>6

\* What a commit makes of the table.
LEMMA CommittedRows ==
  ASSUME IInv, NEW c \in Threads, CommitCycle(c)
  PROVE  \E new \in SetToAllKPermutations(Created(c)) :
           /\ IsTable(rows') /\ Len(rows) \in Nat /\ DOMAIN rows = 1..Len(rows)
           /\ \A i \in DOMAIN rows : i \in DOMAIN rows' /\ rows'[i] = Rewritten(c, i)
           /\ \A i \in DOMAIN rows' \ DOMAIN rows :
                i - Len(rows) \in DOMAIN new /\ rows'[i] = NewRow(c, new[i - Len(rows)])
<1>. USE DEF IInv
<1>1. PICK new \in SetToAllKPermutations(Created(c)) :
        rows' = [i \in DOMAIN rows |-> Rewritten(c, i)] \o [k \in DOMAIN new |-> NewRow(c, new[k])]
  BY DEF CommitCycle
<1> DEFINE r == [i \in DOMAIN rows |-> Rewritten(c, i)]
           s == [k \in DOMAIN new |-> NewRow(c, new[k])]
<1>2. Len(rows) \in Nat /\ DOMAIN rows = 1..Len(rows)
  BY TableLength DEF RowsOK
<1>3. PICK n \in Nat : DOMAIN new = 1..n
  BY InsertedRows DEF CommitCycle
<1>4. IsTable(r) /\ Len(r) = Len(rows)
  BY <1>2, FunctionIsTable
<1>5. IsTable(s) /\ Len(s) = n
  BY <1>3, FunctionIsTable
<1>6. /\ IsTable(rows') /\ DOMAIN rows' = 1..(Len(rows) + n)
      /\ \A i \in 1..Len(rows) : rows'[i] = r[i]
      /\ \A k \in 1..n : rows'[Len(rows) + k] = s[k]
  <2>. HIDE DEF r, s
  <2>. QED
    BY <1>1, <1>4, <1>5, TablesConcatenated DEF r, s
<1>7. \A i \in DOMAIN rows : i \in DOMAIN rows' /\ rows'[i] = Rewritten(c, i)
  BY <1>2, <1>3, <1>6
<1>8. ASSUME NEW i \in DOMAIN rows' \ DOMAIN rows
      PROVE  i - Len(rows) \in DOMAIN new /\ rows'[i] = NewRow(c, new[i - Len(rows)])
  <2>1. i - Len(rows) \in 1..n /\ Len(rows) + (i - Len(rows)) = i
    BY <1>2, <1>3, <1>6, <1>8
  <2>. QED
    BY <1>3, <1>6, <2>1
<1>. QED
  BY <1>2, <1>6, <1>7, <1>8

\* A commit inserts and reinforces only what its clusters supported.
LEMMA CommitCycleKeepsIInv ==
  ASSUME IInv, NEW c \in Threads, CommitCycle(c)
  PROVE  IInv'
<1>. USE DEF IInv
<1>1. PICK new \in SetToAllKPermutations(Created(c)) :
        /\ IsTable(rows') /\ Len(rows) \in Nat /\ DOMAIN rows = 1..Len(rows)
        /\ \A i \in DOMAIN rows : i \in DOMAIN rows' /\ rows'[i] = Rewritten(c, i)
        /\ \A i \in DOMAIN rows' \ DOMAIN rows :
             i - Len(rows) \in DOMAIN new /\ rows'[i] = NewRow(c, new[i - Len(rows)])
  BY CommittedRows
<1>2. /\ Running(c) /\ cycle' = [cycle EXCEPT ![c] = NoCycle]
      /\ awaited' = (IF awaited = c THEN NoCycle ELSE awaited)
      /\ UNCHANGED <<events, timeouts>>
  BY DEF CommitCycle, NoLongerAwaited
<1>3. /\ \A k \in DOMAIN new : new[k] \in Created(c)
      /\ \A k, l \in DOMAIN new : new[k] = new[l] => k = l
  BY <1>2, InsertedRows
<1>4. CycleSupported(c)
  BY <1>2 DEF CyclesOK
<1>5. ASSUME NEW d \in Created(c)
      PROVE  \E x \in cycle[c].applied : x.row = NotFound /\ x.draft = d
  BY DEF Created, Reinforced
<1>6. ASSUME NEW i \in DOMAIN rows' \ DOMAIN rows
      PROVE  /\ DOMAIN rows'[i] = RowFields /\ RowSupported(events, rows'[i])
             /\ rows'[i].asset = new[i - Len(rows)].asset
             /\ new[i - Len(rows)] \in Created(c)
  <2> DEFINE d == new[i - Len(rows)]
  <2>1. d \in Created(c) /\ rows'[i] = NewRow(c, d)
    BY <1>1, <1>3
  <2>. HIDE DEF d
  <2>2. /\ rows'[i].asset = d.asset /\ DOMAIN rows'[i] = RowFields
        /\ rows'[i].created = cycle[c].at /\ rows'[i].updated = cycle[c].at
    BY <2>1 DEF NewRow, RowFields
  <2>3. Supported(events, d.asset, cycle[c].at)
    BY <1>4, <1>5, <2>1 DEF CycleSupported
  <2>. QED
    BY <2>1, <2>2, <2>3 DEF RowSupported, d
<1>7. ASSUME NEW i \in DOMAIN rows
      PROVE  /\ DOMAIN rows'[i] = RowFields /\ RowSupported(events, rows'[i])
             /\ rows'[i].asset = rows[i].asset
             /\ rows'[i].status = "ACTIVE" =>
                  rows[i].status = "ACTIVE" /\ i \notin cycle[c].expired
  BY <1>1, <1>2, RewrittenRow
<1>8. RowsOK'
  BY <1>1, <1>2, <1>6, <1>7 DEF RowsOK
<1>9. \A d \in Threads : Running(d)' => d # c /\ cycle'[d] = cycle[d] /\ Running(d)
  BY <1>2 DEF CyclesOK, Running
<1>10. CyclesOK'
  <2>1. ASSUME NEW d \in Threads, Running(d)' PROVE CycleSupported(d)'
    BY <1>1, <1>2, <1>7, <1>9, <2>1 DEF CyclesOK, CycleSupported
  <2>2. cycle' = [d \in Threads |-> cycle'[d]]
    BY <1>2 DEF CyclesOK
  <2>. QED
    BY <2>1, <2>2 DEF CyclesOK
<1>11. AloneOK'
  <2>1. ASSUME timeouts = 0 PROVE \A d \in Threads : ~Running(d)'
    BY <1>2, <1>9, <2>1 DEF AloneOK
  <2>2. ASSUME timeouts = 0, NEW i \in DOMAIN rows', NEW j \in DOMAIN rows',
               rows'[i].status = "ACTIVE", rows'[j].status = "ACTIVE",
               rows'[i].asset = rows'[j].asset
        PROVE  i = j
    <3>1. CycleAlone(c) /\ OneActiveSignal
      BY <1>2, <2>2 DEF AloneOK
    <3>2. ASSUME NEW k \in DOMAIN rows, NEW l \in DOMAIN rows' \ DOMAIN rows,
                 rows'[k].status = "ACTIVE", rows'[k].asset = rows'[l].asset
          PROVE  FALSE
      <4>1. rows[k].status = "ACTIVE" /\ k \notin cycle[c].expired /\ rows'[k].asset = rows[k].asset
        BY <1>7, <3>2
      <4>2. PICK x \in cycle[c].applied : x.row = NotFound /\ x.draft.asset = rows'[l].asset
        BY <1>5, <1>6
      <4>. QED
        BY <3>1, <3>2, <4>1, <4>2 DEF CycleAlone
    <3>3. CASE i \in DOMAIN rows /\ j \in DOMAIN rows
      BY <1>7, <2>2, <3>1, <3>3 DEF OneActiveSignal
    <3>4. CASE i \notin DOMAIN rows /\ j \notin DOMAIN rows
      <4>1. PICK x \in cycle[c].applied : x.draft = new[i - Len(rows)]
        BY <1>5, <1>6, <3>4
      <4>2. PICK y \in cycle[c].applied : y.draft = new[j - Len(rows)]
        BY <1>5, <1>6, <3>4
      <4>3. x.draft.asset = y.draft.asset
        BY <1>6, <2>2, <3>4, <4>1, <4>2
      <4>4. new[i - Len(rows)] = new[j - Len(rows)]
        BY <3>1, <4>1, <4>2, <4>3 DEF CycleAlone
      <4>5. i - Len(rows) = j - Len(rows)
        BY <1>1, <1>3, <3>4, <4>4
      <4>6. i \in Int /\ j \in Int
        BY <1>1, <2>2, TableLength
      <4>. QED
        BY <1>1, <4>5, <4>6
    <3>. QED
      BY <2>2, <3>2, <3>3, <3>4
  <2>. QED
    BY <1>2, <2>1, <2>2 DEF AloneOK, OneActiveSignal
<1>. QED
  BY <1>8, <1>10, <1>11

\* A timeout stops the await and leaves the thread.
LEMMA TimeOutKeepsIInv == IInv /\ TimeOut => IInv'
<1> SUFFICES ASSUME IInv, TimeOut PROVE IInv'
  OBVIOUS
<1>. USE DEF IInv, TimeOut
<1>1. RowsOK' /\ CyclesOK'
  BY DEF RowsOK, CyclesOK, CycleSupported, Running
<1>2. AloneOK'
  BY DEF AloneOK
<1>. QED
  BY <1>1, <1>2

\* A failed cycle releases its rows unchanged.
LEMMA FailCycleKeepsIInv ==
  ASSUME IInv, NEW c \in Threads, FailCycle(c)
  PROVE  IInv'
<1>. USE DEF IInv
<1>1. /\ Running(c) /\ cycle' = [cycle EXCEPT ![c] = NoCycle]
      /\ awaited' = (IF awaited = c THEN NoCycle ELSE awaited)
      /\ UNCHANGED <<events, rows, timeouts>>
  BY DEF FailCycle, NoLongerAwaited
<1>2. cycle'[c] = NoCycle /\ \A d \in Threads : d # c => cycle'[d] = cycle[d]
  BY <1>1 DEF CyclesOK
<1>3. RowsOK' /\ CyclesOK'
  BY <1>1, <1>2, OtherCycles DEF Running
<1>4. ASSUME timeouts = 0, NEW d \in Threads PROVE ~Running(d)'
  BY <1>1, <1>2, <1>4 DEF AloneOK, Running
<1>5. AloneOK'
  BY <1>1, <1>4 DEF AloneOK, OneActiveSignal
<1>. QED
  BY <1>3, <1>5

\* The invariant reads nothing but the variables.
LEMMA StutterKeepsIInv == IInv /\ UNCHANGED vars => IInv'
<1> SUFFICES ASSUME IInv, UNCHANGED vars PROVE IInv'
  OBVIOUS
<1>. USE DEF vars
<1>. QED
  BY EventsKeepIInv DEF IInv, RowsOK

\* Every step keeps the invariant: one lemma for each action.
LEMMA IInvStep == IInv /\ [Next]_vars => IInv'
<1> SUFFICES ASSUME IInv, [Next]_vars PROVE IInv'
  OBVIOUS
<1>1. CASE Collectors \/ Tick
  BY <1>1, CollectorsKeepIInv
<1>2. ASSUME NEW c \in Threads, Step(c) PROVE IInv'
  <2>1. ASSUME NEW draft, ApplyDraft(c, draft) PROVE IInv'
    BY <2>1, ApplyDraftKeepsIInv
  <2>. QED
    BY <1>2, <2>1, BeginCycleKeepsIInv, ExpireSignalsKeepsIInv, LoadGroupsKeepsIInv,
       CommitCycleKeepsIInv DEF Step
<1>3. CASE TimeOut
  BY <1>3, TimeOutKeepsIInv
<1>4. ASSUME NEW c \in Threads, FailCycle(c) PROVE IInv'
  BY <1>4, FailCycleKeepsIInv
<1>5. CASE UNCHANGED vars
  BY <1>5, StutterKeepsIInv
<1>. QED
  BY <1>1, <1>2, <1>3, <1>4, <1>5 DEF Next, Cycles

-----------------------------------------------------------------------------
(***************************************************************************)
(* The theorems.                                                           *)
(***************************************************************************)

\* The invariant holds in every reachable state.
THEOREM Invariance == Spec => []IInv
BY IInvInit, IInvStep, PTL DEF Spec

\* Every signal was, whenever it was written, backed by fresh events of
\* MinTraders independent clusters (docs/PHASE6_DESIGN.md, workstream 1),
\* however cycles overlap, time out, fail or are retried.
THEOREM EverySignalIsConsensus == Spec => []SignalsAreConsensus
<1>1. IInv => SignalsAreConsensus
  BY DEF IInv, RowsOK, RowSupported, Supported, BackersIn, SignalsAreConsensus
<1>. QED
  BY <1>1, Invariance, PTL

\* Until a cycle times out there is one ACTIVE signal for a token, although no
\* unique index says so (_apply_draft); signal_dup shows what a timeout does.
THEOREM OneActiveUntilTimeout == Spec => []OneActiveWithoutTimeouts
<1>1. IInv => OneActiveWithoutTimeouts
  BY DEF IInv, AloneOK, OneActiveWithoutTimeouts
<1>. QED
  BY <1>1, Invariance, PTL

-----------------------------------------------------------------------------
(***************************************************************************)
(* The scores a group is judged by are natural numbers.                    *)
(***************************************************************************)

\* Clamping leaves a percentage.
LEMMA PercentType == \A x \in Int : Percent(x) \in 0..100
<1> SUFFICES ASSUME NEW x \in Int PROVE Percent(x) \in 0..100
  OBVIOUS
<1>1. Min({100, x}) = IF x < 100 THEN x ELSE 100
  BY DEF Min
<1> DEFINE y == IF x < 100 THEN x ELSE 100
<1>2. y \in Int /\ y <= 100
  OBVIOUS
<1>. HIDE DEF y
<1>3. Max({0, y}) = IF y < 0 THEN 0 ELSE y
  BY <1>2 DEF Max
<1>. QED
  BY <1>1, <1>2, <1>3 DEF Percent, y

\* The k-th smallest of finitely many integers is one of them.
LEMMA SmallestType ==
  ASSUME NEW f, IsSummable(f), DOMAIN f # {}, NEW k \in Nat, k >= 1
  PROVE  Smallest(f, k) \in Int
<1> DEFINE V == {f[x] : x \in DOMAIN f}
           Below(v) == {x \in DOMAIN f : f[x] < v}
           N == {-v : v \in V}
           T == {v \in V : Cardinality(Below(v)) < k}
<1>1. IsFiniteSet(V) /\ V # {} /\ V \subseteq Int
  BY ValuesFinite DEF IsSummable
<1>2. IsFiniteSet(N) /\ N # {} /\ N \subseteq Int
  <2> DEFINE g == [v \in V |-> -v]
  <2>1. DOMAIN g = V /\ {g[v] : v \in DOMAIN g} = N
    OBVIOUS
  <2>. HIDE DEF g, N
  <2>2. IsFiniteSet(N)
    BY <1>1, <2>1, ValuesFinite
  <2>. QED
    BY <1>1, <2>2 DEF N
<1>3. PICK n \in N : \A y \in N : n >= y
  <2>. HIDE DEF N
  <2>. QED
    BY <1>2, GreatestOfFinite
<1>4. PICK v \in V : n = -v
  OBVIOUS
<1>5. Below(v) = {}
  <2> SUFFICES ASSUME NEW x \in DOMAIN f, f[x] < v PROVE FALSE
    OBVIOUS
  <2>1. f[x] \in V /\ -f[x] \in N /\ f[x] \in Int /\ v \in Int
    BY <1>1
  <2>2. n >= -f[x]
    BY <1>3, <2>1
  <2>. QED
    BY <1>4, <2>1, <2>2
<1>6. v \in T
  BY <1>5, FS_EmptySet
<1>7. IsFiniteSet(T) /\ T # {} /\ T \subseteq Int
  BY <1>1, <1>6, FS_Subset
<1>8. Max(T) \in Int
  <2>. HIDE DEF T
  <2>. QED
    BY <1>7, GreatestOfFinite
<1>. QED
  BY <1>8 DEF Smallest, Range

\* So is the median, or the half of two of them.
LEMMA MedianType ==
  ASSUME NEW f, IsSummable(f), DOMAIN f # {}
  PROVE  Median(f) \in Int
<1> DEFINE n == Cardinality(DOMAIN f)
           k == (n + 1) \div 2
           l == (n + 2) \div 2
<1>1. n \in Nat /\ n # 0
  BY FS_CardinalityType, FS_EmptySet DEF IsSummable
<1>. HIDE DEF n
<1>2. k \in Nat /\ k >= 1 /\ l \in Nat /\ l >= 1
  BY <1>1
<1>. HIDE DEF k, l
<1>3. Smallest(f, k) \in Int /\ Smallest(f, l) \in Int
  BY <1>2, SmallestType
<1>. QED
  BY <1>3 DEF Median, n, k, l

\* The records of a wallet are finitely many.
LEMMA OpensFinite ==
  ASSUME NEW w
  PROVE  /\ IsFiniteSet(FreshOpens) /\ IsFiniteSet(OpensOf(w)) /\ IsFiniteSet(RoundTrips(w))
         /\ \A e \in OpensOf(w) : e.at \in Int /\ e.usd \in Int
         /\ \A t \in RoundTrips(w) : t[1].at \in Int /\ t[2].at \in Int
<1>1. IsFiniteSet(Observed) /\ Observed \subseteq History
  BY RecordsAssumption, FS_Subset DEF Observed
<1>2. IsFiniteSet(FreshOpens) /\ FreshOpens \subseteq History
  BY <1>1, FS_Subset DEF FreshOpens
<1>3. IsFiniteSet(OpensOf(w)) /\ OpensOf(w) \subseteq History
  BY <1>2, FS_Subset DEF OpensOf
<1> DEFINE closes == {e \in {d \in Observed : d.wallet = w} : e.event = "CLOSED"}
<1>4. IsFiniteSet(closes) /\ closes \subseteq History
  BY <1>1, FS_Subset
<1>5. RoundTrips(w) \subseteq OpensOf(w) \X closes
  BY DEF RoundTrips
<1>. HIDE DEF closes
<1>6. IsFiniteSet(RoundTrips(w))
  BY <1>3, <1>4, <1>5, FS_Product, FS_Subset
<1>. QED
  BY <1>2, <1>3, <1>4, <1>5, <1>6, RecordsAssumption

\* A wallet with a round trip has a holding period.
LEMMA MedianHoldingType ==
  ASSUME NEW w, RoundTrips(w) # {}
  PROVE  MedianHolding(w) \in Int
<1> DEFINE f == [t \in RoundTrips(w) |-> t[2].at - t[1].at]
<1>1. IsSummable(f) /\ DOMAIN f # {}
  BY OpensFinite DEF IsSummable
<1>. HIDE DEF f
<1>. QED
  BY <1>1, MedianType DEF MedianHolding, f

\* The wallets that have one are finitely many.
LEMMA TradersFinite == IsFiniteSet(Traders)
<1> DEFINE f == [e \in FreshOpens |-> e.wallet]
<1>1. DOMAIN f = FreshOpens /\ IsFiniteSet(FreshOpens)
  BY OpensFinite
<1>2. Traders \subseteq {f[e] : e \in DOMAIN f}
  BY DEF Traders, Scored, OpensOf
<1>. HIDE DEF f
<1>3. IsFiniteSet({f[e] : e \in DOMAIN f})
  BY <1>1, ValuesFinite
<1>. QED
  BY <1>2, <1>3, FS_Subset

\* Each of the three signs of a market maker is a whole number.
LEMMA HoldingPeriodType == \A w : HoldingPeriodComponent(w) \in Int
<1> SUFFICES ASSUME NEW w, w \in Traders PROVE HoldingPeriodComponent(w) \in Int
  BY DEF HoldingPeriodComponent
<1> DEFINE f == [v \in Traders |-> MedianHolding(v)]
           p == Median(f)
           x == 100 - (100 * MedianHolding(w)) \div p
<1>1. \A v \in Traders : MedianHolding(v) \in Int
  BY MedianHoldingType DEF Traders
<1>2. IsSummable(f) /\ DOMAIN f # {}
  BY <1>1, TradersFinite DEF IsSummable
<1>. HIDE DEF f
<1>3. p \in Int
  BY <1>2, MedianType
<1>4. HoldingPeriodComponent(w) = IF p <= 0 THEN 0 ELSE Percent(x)
  BY DEF HoldingPeriodComponent, f
<1>5. CASE p <= 0
  BY <1>4, <1>5
<1>6. CASE ~(p <= 0)
  <2>1. x \in Int
    <3> DEFINE m == 100 * MedianHolding(w)
    <3>1. m \in Int
      BY <1>1
    <3>2. p \in Int /\ p > 0
      BY <1>3, <1>6
    <3>. HIDE DEF m, p
    <3>3. m \div p \in Int
      BY <3>1, <3>2
    <3>. QED
      BY <3>3 DEF m, p
  <2>. HIDE DEF x, p
  <2>2. Percent(x) \in 0..100
    BY <2>1, PercentType
  <2>. QED
    BY <1>4, <1>6, <2>2
<1>. QED
  BY <1>5, <1>6

\* The markets a scored wallet opened.
LEMMA MarketsOpenedFinite ==
  ASSUME NEW w, w \in Scored
  PROVE  IsFiniteSet(MarketsOpened(w)) /\ Cardinality(MarketsOpened(w)) \in Nat \ {0}
<1> DEFINE f == [e \in OpensOf(w) |-> e.market]
<1>1. DOMAIN f = OpensOf(w) /\ {f[e] : e \in DOMAIN f} = MarketsOpened(w)
  BY DEF MarketsOpened
<1>. HIDE DEF f
<1>2. IsFiniteSet(MarketsOpened(w))
  BY <1>1, OpensFinite, ValuesFinite
<1>3. MarketsOpened(w) # {}
  BY DEF MarketsOpened, Scored
<1>. QED
  BY <1>2, <1>3, FS_CardinalityType, FS_EmptySet

\* The share of its markets in which a scored wallet took both sides.
LEMMA BothSidesType == \A w \in Scored : BothSidesRatio(w) \in Int
<1> SUFFICES ASSUME NEW w \in Scored PROVE BothSidesRatio(w) \in Int
  OBVIOUS
<1> DEFINE sides(mk) == {e.side : e \in {o \in OpensOf(w) : o.market = mk}}
           both == {mk \in MarketsOpened(w) : Cardinality(sides(mk)) >= 2}
           b == Cardinality(both)
           n == Cardinality(MarketsOpened(w))
<1>1. BothSidesRatio(w) = (100 * b) \div n
  BY DEF BothSidesRatio
<1>2. both \subseteq MarketsOpened(w)
  OBVIOUS
<1>. HIDE DEF both
<1>3. b \in Nat /\ n \in Nat \ {0}
  BY <1>2, MarketsOpenedFinite, FS_Subset, FS_CardinalityType
<1>. HIDE DEF b, n
<1>. QED
  BY <1>1, <1>3

\* How many markets it opened, and how shallowly.
LEMMA BreadthDepthType == \A w \in Scored : BreadthDepthComponent(w) \in Int
<1> SUFFICES ASSUME NEW w \in Scored PROVE BreadthDepthComponent(w) \in Int
  OBVIOUS
<1> DEFINE usd == [e \in OpensOf(w) |-> e.usd]
           c == Cardinality(OpensOf(w))
           n == Cardinality(MarketsOpened(w))
           depth == SumFunction(usd) \div c
           x == (100 * n) \div BreadthReference
           y == 100 - (100 * depth) \div DepthReference
<1>1. BreadthDepthComponent(w) = (Percent(x) * Percent(y)) \div 100
  BY DEF BreadthDepthComponent
<1>2. SumFunction(usd) \in Int
  <2>1. IsSummable(usd)
    BY OpensFinite DEF IsSummable
  <2>. HIDE DEF usd
  <2>. QED
    BY <2>1, TotalInt
<1>3. c \in Nat \ {0}
  BY OpensFinite, FS_CardinalityType, FS_EmptySet DEF Scored
<1>4. n \in Nat \ {0}
  BY MarketsOpenedFinite
<1>. HIDE DEF usd, c, n
<1>5. depth \in Int
  BY <1>2, <1>3
<1>. HIDE DEF depth
<1>6. x \in Int /\ y \in Int
  BY <1>4, <1>5, MarketMakerSettings
<1>. HIDE DEF x, y
<1>7. Percent(x) \in 0..100 /\ Percent(y) \in 0..100
  BY <1>6, PercentType
<1>8. \A p, q \in 0..100 : (p * q) \div 100 \in Int
  OBVIOUS
<1>. QED
  BY <1>1, <1>7, <1>8

\* What a wallet's voice is multiplied by is a percentage.
LEMMA MultiplierType == \A w : Multiplier(w) \in 0..100
<1> SUFFICES ASSUME NEW w, w \in Scored PROVE Multipliers[w] \in 0..100
  BY DEF Multiplier, Multipliers
<1> DEFINE a == 100 - BothSidesRatio(w)
           b == 100 - HoldingPeriodComponent(w)
           c == 100 - BreadthDepthComponent(w)
           x == 100 - (a * b * c) \div 10000
<1>1. a \in Int /\ b \in Int /\ c \in Int
  BY BothSidesType, HoldingPeriodType, BreadthDepthType
<1>2. MarketMakerScore(w) = Percent(x)
  BY DEF MarketMakerScore
<1>. HIDE DEF a, b, c
<1>3. x \in Int
  BY <1>1
<1>. HIDE DEF x
<1>4. MarketMakerScore(w) \in 0..100
  BY <1>2, <1>3, PercentType
<1>5. \A s \in 0..100 : ConsensusWeightMultiplier(s) \in 0..100
  BY PercentType, MarketMakerSettings DEF ConsensusWeightMultiplier
<1>. QED
  BY <1>4, <1>5 DEF Multipliers

\* A category score is the number of rates a bound rejects, a percentage.
LEMMA CategoryScoreType == \A w, k : CategoryScore(w, k) \in 0..100
<1> SUFFICES ASSUME NEW w, NEW k PROVE CategoryScore(w, k) \in 0..100
  OBVIOUS
<1>1. \A u, v, n : WilsonLowPercentIn(u, v, n) \in 0..100
  <2> SUFFICES ASSUME NEW u, NEW v, NEW n PROVE WilsonLowPercentIn(u, v, n) \in 0..100
    OBVIOUS
  <2> DEFINE R == {c \in 0..99 : WilsonLowAboveIn(u, v, n, c)}
  <2>0. \A m \in Nat : IsFiniteSet(0..m) /\ Cardinality(0..m) = m + 1
    BY FS_Interval
  <2>1. IsFiniteSet(0..99)
    BY <2>0
  <2>2. Cardinality(0..99) = 99 + 1
    BY <2>0
  <2>3. R \subseteq 0..99
    OBVIOUS
  <2>. HIDE DEF R
  <2>4. IsFiniteSet(R) /\ Cardinality(R) <= Cardinality(0..99)
    BY <2>1, <2>3, FS_Subset
  <2>5. Cardinality(R) \in Nat
    BY <2>4, FS_CardinalityType
  <2>. QED
    BY <2>2, <2>4, <2>5 DEF WilsonLowPercentIn, R
<1>2. ASSUME NEW c, NEW v \in DOMAIN RunCategoryScoring(c)
      PROVE  RunCategoryScoring(c)[v] \in 0..100
  <2>1. DOMAIN << >> = {}
    OBVIOUS
  <2>2. RunCategoryScoring(c) # << >>
    BY <1>2, <2>1
  <2>. QED
    BY <1>1, <1>2, <2>2 DEF RunCategoryScoring, ComputeCategoryScore
<1>. QED
  BY <1>2 DEF CategoryScore, LatestCategoryScores

\* A group's events have finitely many voices, each of some event.
LEMMA VoicesFinite ==
  ASSUME NEW G, IsFiniteSet(G)
  PROVE  /\ IsFiniteSet(Voices(G)) /\ \A v \in Voices(G) : v \subseteq G /\ v # {} /\ IsFiniteSet(v)
         /\ Cardinality(Voices(G)) \in Nat
<1> DEFINE voice(k) == {e \in G : ClusterOf(e.wallet) = k}
           f == [e \in G |-> voice(ClusterOf(e.wallet))]
<1>1. DOMAIN f = G /\ Voices(G) = {f[e] : e \in DOMAIN f}
  BY DEF Voices
<1>2. IsFiniteSet(Voices(G))
  <2>. HIDE DEF f
  <2>. QED
    BY <1>1, ValuesFinite
<1>3. ASSUME NEW v \in Voices(G) PROVE v \subseteq G /\ v # {}
  BY DEF Voices
<1>. QED
  BY <1>2, <1>3, FS_Subset, FS_CardinalityType

\* What an event weighs, and with it how loud its voice is, is a natural number.
LEMMA LoudnessType ==
  ASSUME NEW v, IsFiniteSet(v), v # {}
  PROVE  Loudness(v) \in Nat
<1>1. \A e : Weight(e) \in Nat
  <2>1. \A s, x \in 0..100 : (s * x) \div 100 \in Nat
    OBVIOUS
  <2>. QED
    BY <2>1, CategoryScoreType, MultiplierType DEF Weight
<1> DEFINE f == [e \in v |-> Weight(e)]
           W == {Weight(e) : e \in v}
<1>2. DOMAIN f = v /\ W = {f[e] : e \in DOMAIN f}
  OBVIOUS
<1>3. W \subseteq Nat /\ W # {}
  BY <1>1
<1>. HIDE DEF f, W
<1>4. IsFiniteSet(W)
  BY <1>2, ValuesFinite
<1>5. Max(W) \in W
  BY <1>3, <1>4, GreatestOfFinite
<1>. QED
  BY <1>3, <1>5 DEF Loudness, W

\* A group's score is a natural number.
LEMMA WeightedScoreType ==
  ASSUME NEW G, IsFiniteSet(G)
  PROVE  WeightedScore(G) \in Nat
<1> DEFINE f == [v \in Voices(G) |-> Loudness(v)]
<1>1. \A v \in Voices(G) : Loudness(v) \in Nat
  BY VoicesFinite, LoudnessType
<1>2. IsSummable(f) /\ \A v \in DOMAIN f : f[v] >= 0
  BY <1>1, VoicesFinite DEF IsSummable
<1>. HIDE DEF f
<1>. QED
  BY <1>2, TotalNat DEF WeightedScore, f

-----------------------------------------------------------------------------
(***************************************************************************)
(* The types.                                                              *)
(***************************************************************************)

\* The rows of a sequence of signals, and a thread's cycle.
LEMMA TypedRow ==
  ASSUME TypeOK, NEW i \in DOMAIN rows
  PROVE  rows[i] \in RowType
<1> DEFINE S == RowType
<1>1. rows \in Seq(S)
  BY DEF TypeOK
<1>. HIDE DEF S
<1>2. rows[i] \in S
  BY <1>1, LenProperties
<1>. QED
  BY <1>2 DEF S

\* The transaction of a running cycle.
LEMMA TypedCycle ==
  ASSUME TypeOK, NEW c \in Threads, Running(c)
  PROVE  cycle[c] \in CycleType
BY DEF TypeOK, Running

\* Initially there is nothing.
LEMMA TypeInit == Init => TypeOK
<1> SUFFICES ASSUME Init PROVE TypeOK
  OBVIOUS
<1>1. rows \in Seq(RowType)
  BY EmptySeq DEF Init
<1>. QED
  BY <1>1, NoCycleIsNoCycle, GenerationSettings DEF Init, TypeOK, Running

\* One thread's cycle changes, and nothing else but whether it is awaited.
LEMMA CycleKeepsTypes ==
  ASSUME TypeOK, NEW c \in Threads, NEW new \in CycleType, cycle' = [cycle EXCEPT ![c] = new],
         UNCHANGED <<now, events, closed, rows, timeouts, faults>>,
         awaited' \in {awaited, c},
         new.expired \subseteq DOMAIN rows,
         \A x \in new.applied : x.row \in {NotFound} \cup DOMAIN rows
  PROVE  TypeOK'
<1>1. cycle'[c] = new /\ \A d \in Threads : d # c => cycle'[d] = cycle[d]
  BY DEF TypeOK
<1>2. Running(c)' /\ \A d \in Threads : d # c => (Running(d)' <=> Running(d))
  BY <1>1, NoCycleIsNoCycle DEF Running
<1>3. (cycle \in [Threads -> CycleType \cup {NoCycle}])'
  BY DEF TypeOK
<1>4. awaited' \in Threads \cup {NoCycle} /\ (awaited' # NoCycle => Running(awaited)')
  BY <1>2 DEF TypeOK
<1>. HIDE DEF CycleType
<1>5. ASSUME NEW d \in Threads, Running(d)'
      PROVE  /\ cycle'[d].expired \subseteq DOMAIN rows'
             /\ \A x \in cycle'[d].applied : x.row \in {NotFound} \cup DOMAIN rows'
  BY <1>1, <1>2, <1>5 DEF TypeOK
<1>. QED
  BY <1>3, <1>4, <1>5 DEF TypeOK

\* A cycle ends, and the rows only grow.
LEMMA EndKeepsTypes ==
  ASSUME TypeOK, NEW c \in Threads, cycle' = [cycle EXCEPT ![c] = NoCycle], NoLongerAwaited(c),
         rows' \in Seq(RowType), DOMAIN rows \subseteq DOMAIN rows',
         UNCHANGED <<now, events, closed, timeouts>>, faults' \in 0..MaxFaults
  PROVE  TypeOK'
<1>1. cycle'[c] = NoCycle /\ \A d \in Threads : d # c => cycle'[d] = cycle[d]
  BY DEF TypeOK
<1>2. ~Running(c)' /\ \A d \in Threads : d # c => (Running(d)' <=> Running(d))
  BY <1>1 DEF Running
<1>3. (cycle \in [Threads -> CycleType \cup {NoCycle}])'
  BY DEF TypeOK
<1>4. awaited' \in Threads \cup {NoCycle} /\ (awaited' # NoCycle => Running(awaited)')
  BY <1>2 DEF TypeOK, NoLongerAwaited
<1>5. ASSUME NEW d \in Threads, Running(d)'
      PROVE  /\ cycle'[d].expired \subseteq DOMAIN rows'
             /\ \A x \in cycle'[d].applied : x.row \in {NotFound} \cup DOMAIN rows'
  BY <1>1, <1>2, <1>5 DEF TypeOK
<1>. QED
  BY <1>3, <1>4, <1>5 DEF TypeOK
\* The collectors and the clock.
LEMMA CollectorsKeepTypes == IInv /\ TypeOK /\ (Collectors \/ Tick) => TypeOK'
<1> SUFFICES ASSUME IInv, TypeOK, Collectors \/ Tick PROVE TypeOK'
  OBVIOUS
<1>1. ASSUME NEW w \in Wallets, NEW a \in Assets, DetectEvent(w, a) PROVE TypeOK'
  BY <1>1 DEF DetectEvent, TypeOK, Running
<1>2. ASSUME NEW m \in Markets, CloseMarket(m) PROVE TypeOK'
  BY <1>2 DEF CloseMarket, TypeOK, Running
<1>3. CASE Tick
  <2>1. (now \in 0..MaxTime)'
    BY <1>3, GenerationSettings DEF Tick, TypeOK
  <2>. QED
    BY <1>3, <2>1 DEF Tick, TypeOK, Running
<1>. QED
  BY <1>1, <1>2, <1>3 DEF Collectors

\* A cycle begins with nothing, at the time it is.
LEMMA BeginCycleKeepsTypes ==
  ASSUME IInv, TypeOK, NEW c \in Threads, BeginCycle(c)
  PROVE  TypeOK'
<1> DEFINE new == [at |-> now, phase |-> "expire", expired |-> {}, drafts |-> {}, applied |-> {}]
<1>1. new \in CycleType
  BY DEF CycleType, TypeOK
<1>2. new.expired = {} /\ new.applied = {} /\ cycle' = [cycle EXCEPT ![c] = new]
  BY DEF BeginCycle
<1>. HIDE DEF new
<1>. QED
  BY <1>1, <1>2, CycleKeepsTypes DEF BeginCycle

\* The sweep takes rows of the table.
LEMMA ExpireSignalsKeepsTypes ==
  ASSUME IInv, TypeOK, NEW c \in Threads, ExpireSignals(c)
  PROVE  TypeOK'
<1> DEFINE new == [cycle[c] EXCEPT !.phase = "load", !.expired = Due(c)]
<1>1. Running(c) /\ cycle[c] \in CycleType
  BY TypedCycle DEF ExpireSignals
<1>2. Due(c) \subseteq DOMAIN rows /\ DOMAIN rows \subseteq Nat
  BY TableLength DEF Due, IInv, RowsOK
<1>3. new \in CycleType
  BY <1>1, <1>2 DEF CycleType
<1>4. new.expired = Due(c) /\ new.applied = cycle[c].applied /\ cycle' = [cycle EXCEPT ![c] = new]
  BY <1>1 DEF ExpireSignals, CycleType
<1>. HIDE DEF new
<1>5. /\ new.expired \subseteq DOMAIN rows
      /\ \A x \in new.applied : x.row \in {NotFound} \cup DOMAIN rows
  BY <1>1, <1>2, <1>4 DEF TypeOK
<1>6. UNCHANGED <<now, events, closed, rows, awaited, timeouts, faults>>
  BY DEF ExpireSignals
<1>. QED
  BY <1>3, <1>4, <1>5, <1>6, CycleKeepsTypes

\* What the load drafts has a number of voices and a score.
LEMMA LoadGroupsKeepsTypes ==
  ASSUME IInv, TypeOK, NEW c \in Threads, LoadGroups(c)
  PROVE  TypeOK'
<1>1. PICK quote \in [Markets -> Quotes] :
        cycle' = [cycle EXCEPT
          ![c].phase = "apply",
          ![c].drafts =
            {[asset |-> a, traders |-> Cardinality(Voices(Group(c, a))),
              score |-> WeightedScore(Group(c, a))] :
               a \in {b \in Assets :
                        Clears(Group(c, b), MarketOf[b] \in closed, quote[MarketOf[b]])}}]
  BY DEF LoadGroups
<1> DEFINE drafts ==
             {[asset |-> a, traders |-> Cardinality(Voices(Group(c, a))),
               score |-> WeightedScore(Group(c, a))] :
                a \in {b \in Assets :
                         Clears(Group(c, b), MarketOf[b] \in closed, quote[MarketOf[b]])}}
           new == [cycle[c] EXCEPT !.phase = "apply", !.drafts = drafts]
<1>2. Running(c) /\ cycle[c] \in CycleType
  BY TypedCycle DEF LoadGroups
<1>3. drafts \subseteq DraftType
  <2>1. ASSUME NEW a
        PROVE  Cardinality(Voices(Group(c, a))) \in Nat /\ WeightedScore(Group(c, a)) \in Nat
    <3>1. IsFiniteSet(Group(c, a))
      BY FS_Subset DEF IInv, RowsOK, Group
    <3>. QED
      BY <3>1, VoicesFinite, WeightedScoreType
  <2>. QED
    BY <2>1 DEF DraftType
<1>4. cycle' = [cycle EXCEPT ![c] = new]
  BY <1>1
<1>. HIDE DEF drafts
<1>5. new \in CycleType
  BY <1>2, <1>3 DEF CycleType
<1>6. new.expired = cycle[c].expired /\ new.applied = cycle[c].applied
  BY <1>2 DEF CycleType
<1>. HIDE DEF new
<1>. QED
  BY <1>2, <1>4, <1>5, <1>6, CycleKeepsTypes DEF LoadGroups, TypeOK

\* A draft is applied to a row of the table or to none.
LEMMA ApplyDraftKeepsTypes ==
  ASSUME IInv, TypeOK, NEW c \in Threads, NEW draft, ApplyDraft(c, draft)
  PROVE  TypeOK'
<1>1. PICK i \in IF Existing(c, draft.asset) = {} THEN {NotFound} ELSE Existing(c, draft.asset) :
        cycle' = [cycle EXCEPT ![c].drafts = @ \ {draft},
                               ![c].applied = @ \cup {[draft |-> draft, row |-> i]}]
  BY DEF ApplyDraft
<1> DEFINE x == [draft |-> draft, row |-> i]
           new == [cycle[c] EXCEPT !.drafts = @ \ {draft}, !.applied = @ \cup {x}]
<1>2. Running(c) /\ cycle[c] \in CycleType /\ draft \in cycle[c].drafts
  BY TypedCycle DEF ApplyDraft
<1>3. i \in {NotFound} \cup DOMAIN rows /\ i \in Nat
  BY TableLength DEF Existing, IInv, RowsOK, NotFound
<1>4. x \in [draft : DraftType, row : Nat] /\ x.row = i
  BY <1>2, <1>3 DEF CycleType
<1>. HIDE DEF x
<1>5. new \in CycleType
  BY <1>2, <1>4 DEF CycleType
<1>6. /\ new.expired = cycle[c].expired /\ new.applied = cycle[c].applied \cup {x}
      /\ cycle' = [cycle EXCEPT ![c] = new]
  BY <1>1, <1>2 DEF CycleType, x
<1>. HIDE DEF new
<1>. QED
  BY <1>2, <1>3, <1>4, <1>5, <1>6, CycleKeepsTypes DEF ApplyDraft, TypeOK

\* A table of signals is a sequence of them.
LEMMA TableOfType ==
  ASSUME NEW rs, IsTable(rs), NEW T, \A i \in DOMAIN rs : rs[i] \in T
  PROVE  rs \in Seq(T)
<1>1. Len(rs) \in Nat /\ DOMAIN rs = 1..Len(rs) /\ rs = [i \in 1..Len(rs) |-> rs[i]]
  BY TableLength
<1>2. rs \in [1..Len(rs) -> T]
  BY <1>1
<1>. QED
  BY <1>1, <1>2, SeqDef

\* A row that a commit expires or reinforces is a signal.
LEMMA RewrittenType ==
  ASSUME IInv, TypeOK, NEW c \in Threads, Running(c), NEW i \in DOMAIN rows
  PROVE  Rewritten(c, i) \in RowType
<1> DEFINE swept == IF i \in cycle[c].expired THEN [rows[i] EXCEPT !.status = "EXPIRED"] ELSE rows[i]
<1>1. rows[i] \in RowType /\ cycle[c] \in CycleType
  BY TypedRow, TypedCycle
<1>2. swept \in RowType
  BY <1>1 DEF RowType
<1>. HIDE DEF swept
<1>3. ASSUME NEW x \in cycle[c].applied
      PROVE  [swept EXCEPT !.traders = x.draft.traders, !.score = x.draft.score,
                           !.updated = cycle[c].at] \in RowType
  <2>1. x.draft.traders \in Nat /\ x.draft.score \in Nat /\ cycle[c].at \in 0..MaxTime
    BY <1>1 DEF CycleType, DraftType
  <2>. QED
    BY <1>2, <2>1 DEF RowType
<1>4. CASE \E x \in Reinforced(c) : x.row = i
  <2> DEFINE x == CHOOSE x \in Reinforced(c) : x.row = i
  <2>1. x \in cycle[c].applied
    BY <1>4 DEF Reinforced
  <2>2. Rewritten(c, i) = [swept EXCEPT !.traders = x.draft.traders, !.score = x.draft.score,
                                        !.updated = cycle[c].at]
    BY <1>4 DEF Rewritten, swept
  <2>. HIDE DEF x
  <2>. QED
    BY <1>3, <2>1, <2>2
<1>5. CASE ~ \E x \in Reinforced(c) : x.row = i
  BY <1>2, <1>5 DEF Rewritten, swept
<1>. QED
  BY <1>4, <1>5

\* A commit writes signals and inserts signals.
LEMMA CommitCycleKeepsTypes ==
  ASSUME IInv, TypeOK, NEW c \in Threads, CommitCycle(c)
  PROVE  TypeOK'
<1>1. PICK new \in SetToAllKPermutations(Created(c)) :
        /\ IsTable(rows') /\ Len(rows) \in Nat /\ DOMAIN rows = 1..Len(rows)
        /\ \A i \in DOMAIN rows : i \in DOMAIN rows' /\ rows'[i] = Rewritten(c, i)
        /\ \A i \in DOMAIN rows' \ DOMAIN rows :
             i - Len(rows) \in DOMAIN new /\ rows'[i] = NewRow(c, new[i - Len(rows)])
  BY CommittedRows
<1>2. Running(c) /\ cycle[c] \in CycleType
  BY TypedCycle DEF CommitCycle
<1>3. \A k \in DOMAIN new : new[k] \in Created(c)
  BY <1>2, InsertedRows
<1>4. ASSUME NEW d \in Created(c) PROVE NewRow(c, d) \in RowType
  <2>1. d \in DraftType /\ cycle[c].at \in 0..MaxTime
    BY <1>2 DEF Created, CycleType
  <2>. QED
    BY <2>1 DEF NewRow, RowType, DraftType
<1>5. ASSUME NEW i \in DOMAIN rows' PROVE rows'[i] \in RowType
  <2>1. CASE i \in DOMAIN rows
    BY <1>1, <1>2, <2>1, RewrittenType
  <2>2. CASE i \notin DOMAIN rows
    BY <1>1, <1>3, <1>4, <1>5, <2>2
  <2>. QED
    BY <2>1, <2>2
<1>6. rows' \in Seq(RowType)
  BY <1>1, <1>5, TableOfType
<1>7. DOMAIN rows \subseteq DOMAIN rows'
  BY <1>1
<1>. QED
  BY <1>6, <1>7, EndKeepsTypes DEF CommitCycle, TypeOK

\* A failed cycle is counted up to the bound.
LEMMA FailCycleKeepsTypes ==
  ASSUME IInv, TypeOK, NEW c \in Threads, FailCycle(c)
  PROVE  TypeOK'
<1>1. faults' = Min({faults + 1, MaxFaults}) /\ faults \in 0..MaxFaults
  BY DEF FailCycle, TypeOK
<1>2. Min({faults + 1, MaxFaults}) = IF faults + 1 < MaxFaults THEN faults + 1 ELSE MaxFaults
  BY <1>1, GenerationSettings DEF Min
<1>3. faults' \in 0..MaxFaults
  BY <1>1, <1>2, GenerationSettings
<1>. QED
  BY <1>3, EndKeepsTypes DEF FailCycle, TypeOK

\* A timeout is counted, and leaves the thread its cycle.
LEMMA TimeOutKeepsTypes == TypeOK /\ TimeOut => TypeOK'
<1> SUFFICES ASSUME TypeOK, TimeOut PROVE TypeOK'
  OBVIOUS
<1>1. (timeouts \in 0..MaxTimeouts)'
  BY GenerationSettings DEF TypeOK, TimeOut
<1>. QED
  BY <1>1 DEF TypeOK, TimeOut, Running

\* Every step keeps the types: one lemma for each action.
LEMMA TypeStep == IInv /\ TypeOK /\ [Next]_vars => TypeOK'
<1> SUFFICES ASSUME IInv, TypeOK, [Next]_vars PROVE TypeOK'
  OBVIOUS
<1>1. CASE Collectors \/ Tick
  BY <1>1, CollectorsKeepTypes
<1>2. ASSUME NEW c \in Threads, Step(c) PROVE TypeOK'
  <2>1. ASSUME NEW draft, ApplyDraft(c, draft) PROVE TypeOK'
    BY <2>1, ApplyDraftKeepsTypes
  <2>. QED
    BY <1>2, <2>1, BeginCycleKeepsTypes, ExpireSignalsKeepsTypes, LoadGroupsKeepsTypes,
       CommitCycleKeepsTypes DEF Step
<1>3. CASE TimeOut
  BY <1>3, TimeOutKeepsTypes
<1>4. ASSUME NEW c \in Threads, FailCycle(c) PROVE TypeOK'
  BY <1>4, FailCycleKeepsTypes
<1>5. CASE UNCHANGED vars
  BY <1>5 DEF vars, TypeOK, Running
<1>. QED
  BY <1>1, <1>2, <1>3, <1>4, <1>5 DEF Next, Cycles

\* What the table of signals and the running cycles hold has its type: the traders
\* and the score of every draft and row are natural numbers, whatever the records
\* of the wallets are, and the awaited thread has a cycle (generate).
THEOREM TypeCorrect == Spec => []TypeOK
<1>1. IInv /\ TypeOK /\ [Next]_vars => TypeOK'
  BY TypeStep
<1>. QED
  BY <1>1, TypeInit, Invariance, PTL DEF Spec
=============================================================================
