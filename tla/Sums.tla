-------------------------------- MODULE Sums --------------------------------
(***************************************************************************)
(* Facts about sums over finite sets.  The ledgers, the exposures and the  *)
(* scores of this project are sums, taken with SumFunction of the          *)
(* community modules.  Its definition is a choice among recursive          *)
(* functions, so that each fact here is proved by induction over the       *)
(* subsets of a finite set, with a set in the place of the predicate.      *)
(***************************************************************************)
EXTENDS Integers, Functions, FiniteSetsExt, FiniteSetTheorems, TLAPS

\* Induction over the natural numbers, for a set instead of a predicate.
LEMMA NatSetInduction ==
  ASSUME NEW S \in SUBSET Nat, 0 \in S, \A n \in S : n + 1 \in S
  PROVE  S = Nat
<1> DEFINE Bad == Nat \ S
           R == OpToRel(<, Nat)
<1> SUFFICES ASSUME Bad # {} PROVE FALSE
  OBVIOUS
<1>1. PICK n \in Bad : \A m \in Bad : <<m, n>> \notin R
  <2>1. Bad \subseteq Nat
    OBVIOUS
  <2>. HIDE DEF Bad, R
  <2>. QED
    BY <2>1, NatLessThanWellFounded, WFMin DEF R
<1>2. n \in Nat /\ n # 0
  OBVIOUS
<1>3. n - 1 \in Bad
  BY <1>2
<1>4. <<n - 1, n>> \in R
  BY <1>2 DEF OpToRel
<1>. QED
  BY <1>1, <1>3, <1>4

\* Induction over the subsets of a finite set.
LEMMA SubsetInduction ==
  ASSUME NEW S, IsFiniteSet(S), NEW F \in SUBSET SUBSET S,
         \A T \in SUBSET S : (\A U \in SUBSET T : U # T => U \in F) => T \in F
  PROVE  F = SUBSET S
<1> DEFINE Bad == (SUBSET S) \ F
           R == StrictSubsetOrdering(S)
<1> SUFFICES ASSUME Bad # {} PROVE FALSE
  OBVIOUS
<1>1. IsWellFoundedOn(R, SUBSET S)
  <2>1. FiniteSubsetsOf(S) = SUBSET S
    BY FS_FiniteSubsetsOfFinite
  <2>2. IsWellFoundedOn(R, FiniteSubsetsOf(S))
    BY FS_StrictSubsetOrderingWellFounded
  <2>. HIDE DEF Bad, R
  <2>. QED
    BY <2>1, <2>2
<1>2. PICK T \in Bad : \A U \in Bad : <<U, T>> \notin R
  <2>1. Bad \subseteq SUBSET S
    OBVIOUS
  <2>. HIDE DEF Bad, R
  <2>. QED
    BY <1>1, <2>1, WFMin
<1>3. \A U \in SUBSET T : U # T => U \in F
  BY <1>2 DEF StrictSubsetOrdering
<1>. QED
  BY <1>3

\* The first n positive numbers are n.
LEMMA FirstNumbers == \A n \in Nat : IsFiniteSet(1..n) /\ Cardinality(1..n) = n
<1> SUFFICES ASSUME NEW n \in Nat PROVE IsFiniteSet(1..n) /\ Cardinality(1..n) = n
  OBVIOUS
<1>1. IsFiniteSet(1..n) /\ Cardinality(1..n) = IF 1 > n THEN 0 ELSE n - 1 + 1
  BY FS_Interval
<1>. QED
  BY <1>1

\* The values of a function on a finite set are finitely many.
LEMMA ValuesFinite ==
  ASSUME NEW f, IsFiniteSet(DOMAIN f)
  PROVE  IsFiniteSet({f[x] : x \in DOMAIN f})
<1> DEFINE g == [x \in DOMAIN f |-> f[x]]
           V == {f[x] : x \in DOMAIN f}
<1>1. g \in Surjection(DOMAIN f, V)
  BY DEF Surjection
<1>. HIDE DEF g, V
<1>. QED
  BY <1>1, FS_Surjection DEF V

\* A finite set of integers has a greatest member.
LEMMA GreatestOfFinite ==
  ASSUME NEW S \in SUBSET Int, IsFiniteSet(S), S # {}
  PROVE  Max(S) \in S /\ \A y \in S : Max(S) >= y
<1> DEFINE HasGreatest(s) == \E x \in s : \A y \in s : x >= y
           Good == {s \in SUBSET S : s # {} => HasGreatest(s)}
<1>1. ASSUME NEW s \in SUBSET S, \A r \in SUBSET s : r # s => r \in Good
      PROVE  s \in Good
  <2> SUFFICES ASSUME s # {} PROVE HasGreatest(s)
    OBVIOUS
  <2>1. PICK z : z \in s
    OBVIOUS
  <2> DEFINE r == s \ {z}
  <2>2. r \in Good
    BY <1>1, <2>1
  <2>3. CASE r = {}
    BY <2>1, <2>3
  <2>4. CASE r # {}
    <3>1. PICK x \in r : \A y \in r : x >= y
      BY <2>2, <2>4
    <3>2. x \in Int /\ z \in Int /\ x \in s /\ \A y \in s : y \in Int /\ (y = z \/ y \in r)
      BY <2>1
    <3>. HIDE DEF r
    <3>3. CASE x >= z
      BY <3>1, <3>2, <3>3
    <3>4. CASE z >= x
      BY <3>1, <3>2, <3>4, <2>1
    <3>. QED
      BY <3>2, <3>3, <3>4
  <2>. QED
    BY <2>3, <2>4
<1>2. Good = SUBSET S
  <2>1. Good \in SUBSET SUBSET S
    OBVIOUS
  <2>. HIDE DEF Good
  <2>. QED
    BY <1>1, <2>1, SubsetInduction
<1>3. \E x \in S : \A y \in S : x >= y
  BY <1>2
<1>. QED
  BY <1>3 DEF Max

\* The member a fold over s begins with.
FirstOf(s) == CHOOSE x \in s : TRUE

\* The sum over s, from the sums g over smaller sets.
SumStep(g, f, s) == IF s = {} THEN 0 ELSE f[FirstOf(s)] + g[s \ {FirstOf(s)}]

\* The sums over the subsets of S, the way the fold of the library takes them.
AreSums(g, f, S) == g = [s \in SUBSET S |-> SumStep(g, f, s)]

\* A fold begins with a member of the set.
LEMMA PickIsMember == \A s : s # {} => FirstOf(s) \in s
BY DEF FirstOf

\* The subsets with at most n members.
SubsetsUpto(S, n) == {s \in SUBSET S : Cardinality(s) <= n}

\* There are such sums, by induction over the size of the subsets.
LEMMA SumsExist ==
  ASSUME NEW S, IsFiniteSet(S), NEW f
  PROVE  \E g : AreSums(g, f, S)
<1> DEFINE P(n) == \E g : g = [s \in SubsetsUpto(S, n) |-> SumStep(g, f, s)]
           Good == {n \in Nat : P(n)}
<1>0. \A s \in SUBSET S : IsFiniteSet(s) /\ Cardinality(s) \in Nat
  BY FS_Subset, FS_CardinalityType
<1>1. 0 \in Good
  <2>1. \A s \in SubsetsUpto(S, 0) : s = {}
    BY <1>0, FS_EmptySet DEF SubsetsUpto
  <2> DEFINE g == [s \in SubsetsUpto(S, 0) |-> 0]
  <2>2. g = [s \in SubsetsUpto(S, 0) |-> SumStep(g, f, s)]
    BY <2>1 DEF SumStep
  <2>. QED
    BY <2>2
<1>2. ASSUME NEW n \in Good PROVE n + 1 \in Good
  <2>1. PICK g : g = [s \in SubsetsUpto(S, n) |-> SumStep(g, f, s)]
    OBVIOUS
  <2> DEFINE h == [s \in SubsetsUpto(S, n + 1) |-> SumStep(g, f, s)]
  <2>2. \A s \in SubsetsUpto(S, n) : h[s] = g[s]
    <3>. TAKE s \in SubsetsUpto(S, n)
    <3>1. s \in SubsetsUpto(S, n + 1)
      BY <1>0 DEF SubsetsUpto
    <3>2. g[s] = SumStep(g, f, s)
      BY <2>1
    <3>. QED
      BY <3>1, <3>2
  <2>3. \A s \in SubsetsUpto(S, n + 1) : SumStep(h, f, s) = SumStep(g, f, s)
    <3>. TAKE s \in SubsetsUpto(S, n + 1)
    <3>1. CASE s = {}
      BY <3>1 DEF SumStep
    <3>2. CASE s # {}
      <4>1. FirstOf(s) \in s
        BY <3>2, PickIsMember
      <4>2. s \ {FirstOf(s)} \in SubsetsUpto(S, n)
        <5>1. s \in SUBSET S /\ Cardinality(s) <= n + 1
          BY DEF SubsetsUpto
        <5>2. Cardinality(s \ {FirstOf(s)}) = Cardinality(s) - 1
          BY <5>1, <1>0, <4>1, FS_RemoveElement
        <5>. QED
          BY <5>1, <5>2, <1>0 DEF SubsetsUpto
      <4>. HIDE DEF h
      <4>. QED
        BY <2>2, <4>2, <3>2 DEF SumStep
    <3>. QED
      BY <3>1, <3>2
  <2>4. h = [s \in SubsetsUpto(S, n + 1) |-> SumStep(h, f, s)]
    BY <2>3
  <2>. HIDE DEF h
  <2>. QED
    BY <2>4
<1>3. Good = Nat
  <2>. HIDE DEF P
  <2>1. Good \in SUBSET Nat
    OBVIOUS
  <2>. HIDE DEF Good
  <2>. QED
    BY <1>1, <1>2, <2>1, NatSetInduction
<1>4. SubsetsUpto(S, Cardinality(S)) = SUBSET S
  BY FS_Subset DEF SubsetsUpto
<1>5. Cardinality(S) \in Good
  BY <1>3, FS_CardinalityType
<1>. QED
  BY <1>4, <1>5 DEF AreSums

\* The sums are those of the function's values on the set, and of nothing else.
LEMMA SumsUnique ==
  ASSUME NEW S, NEW T, IsFiniteSet(T), S \subseteq T,
         NEW f, NEW g, NEW u, NEW v, AreSums(u, f, S), AreSums(v, g, T),
         \A x \in S : f[x] = g[x]
  PROVE  \A s \in SUBSET S : u[s] = v[s]
<1>0. IsFiniteSet(S)
  BY FS_Subset
<1> DEFINE Good == {s \in SUBSET S : u[s] = v[s]}
<1>1. ASSUME NEW s \in SUBSET S, \A r \in SUBSET s : r # s => r \in Good
      PROVE  s \in Good
  <2>1. u[s] = SumStep(u, f, s) /\ v[s] = SumStep(v, g, s)
    BY DEF AreSums
  <2>2. CASE s = {}
    BY <2>1, <2>2 DEF SumStep
  <2>3. CASE s # {}
    <3>1. FirstOf(s) \in s
      BY <2>3, PickIsMember
    <3>2. u[s \ {FirstOf(s)}] = v[s \ {FirstOf(s)}]
      BY <3>1, <1>1
    <3>. QED
      BY <2>1, <2>3, <3>1, <3>2 DEF SumStep
  <2>. QED
    BY <2>2, <2>3
<1>2. Good = SUBSET S
  <2>1. Good \in SUBSET SUBSET S
    OBVIOUS
  <2>. HIDE DEF Good
  <2>. QED
    BY <1>0, <1>1, <2>1, SubsetInduction
<1>. QED
  BY <1>2

\* The library's sum is the last of the sums.
LEMMA SumIsLast ==
  ASSUME NEW S, IsFiniteSet(S), NEW f
  PROVE  \E g : AreSums(g, f, S) /\ SumFunctionOnSet(f, S) = g[S]
<1> DEFINE g == CHOOSE h : AreSums(h, f, S)
<1>1. AreSums(g, f, S)
  BY SumsExist
<1>2. SumFunctionOnSet(f, S) = g[S]
  BY DEF SumFunctionOnSet, FoldFunctionOnSet, MapThenFoldSet, AreSums, SumStep, FirstOf
<1>. QED
  BY <1>1, <1>2

-----------------------------------------------------------------------------
\* Nothing adds up to nothing.
LEMMA SumEmpty == \A f : SumFunctionOnSet(f, {}) = 0
<1> SUFFICES ASSUME NEW f PROVE SumFunctionOnSet(f, {}) = 0
  OBVIOUS
<1>1. PICK g : AreSums(g, f, {}) /\ SumFunctionOnSet(f, {}) = g[{}]
  BY SumIsLast, FS_EmptySet
<1>. QED
  BY <1>1 DEF AreSums, SumStep

\* A sum depends on the summands only.
LEMMA SumSame ==
  ASSUME NEW S, IsFiniteSet(S), NEW f, NEW g, \A x \in S : f[x] = g[x]
  PROVE  SumFunctionOnSet(f, S) = SumFunctionOnSet(g, S)
<1>1. PICK u : AreSums(u, f, S) /\ SumFunctionOnSet(f, S) = u[S]
  BY SumIsLast
<1>2. PICK v : AreSums(v, g, S) /\ SumFunctionOnSet(g, S) = v[S]
  BY SumIsLast
<1>3. \A s \in SUBSET S : u[s] = v[s]
  BY <1>1, <1>2, SumsUnique
<1>. QED
  BY <1>1, <1>2, <1>3

\* The sum over a set is one summand more than the sum without that member.
LEMMA SumPick ==
  ASSUME NEW S, IsFiniteSet(S), S # {}, NEW f
  PROVE  /\ FirstOf(S) \in S
         /\ SumFunctionOnSet(f, S) = f[FirstOf(S)] + SumFunctionOnSet(f, S \ {FirstOf(S)})
<1>1. PICK u : AreSums(u, f, S) /\ SumFunctionOnSet(f, S) = u[S]
  BY SumIsLast
<1>2. FirstOf(S) \in S
  BY PickIsMember
<1> DEFINE R == S \ {FirstOf(S)}
<1>3. IsFiniteSet(R)
  BY FS_Subset
<1>4. PICK v : AreSums(v, f, R) /\ SumFunctionOnSet(f, R) = v[R]
  BY <1>3, SumIsLast
<1>5. \A s \in SUBSET R : v[s] = u[s]
  BY <1>1, <1>3, <1>4, SumsUnique
<1>6. u[S] = SumStep(u, f, S)
  BY <1>1 DEF AreSums
<1>. QED
  BY <1>1, <1>2, <1>4, <1>5, <1>6 DEF SumStep

\* Integers add up to an integer.
LEMMA SumInt ==
  ASSUME NEW S, IsFiniteSet(S), NEW f, \A x \in S : f[x] \in Int
  PROVE  SumFunctionOnSet(f, S) \in Int
<1> DEFINE Good == {s \in SUBSET S : SumFunctionOnSet(f, s) \in Int}
<1>1. ASSUME NEW s \in SUBSET S, \A r \in SUBSET s : r # s => r \in Good
      PROVE  s \in Good
  <2>1. IsFiniteSet(s)
    BY FS_Subset
  <2>2. CASE s = {}
    BY <2>2, SumEmpty
  <2>3. CASE s # {}
    <3>1. /\ FirstOf(s) \in s
          /\ SumFunctionOnSet(f, s) = f[FirstOf(s)] + SumFunctionOnSet(f, s \ {FirstOf(s)})
      BY <2>1, <2>3, SumPick
    <3>2. s \ {FirstOf(s)} \in Good
      BY <1>1, <3>1
    <3>. QED
      BY <3>1, <3>2
  <2>. QED
    BY <2>2, <2>3
<1>2. Good = SUBSET S
  <2>1. Good \in SUBSET SUBSET S
    OBVIOUS
  <2>. HIDE DEF Good
  <2>. QED
    BY <1>1, <2>1, SubsetInduction
<1>. QED
  BY <1>2

\* Any member may be taken out of a sum.
LEMMA SumTake ==
  ASSUME NEW S, IsFiniteSet(S), NEW f, \A x \in S : f[x] \in Int, NEW y \in S
  PROVE  SumFunctionOnSet(f, S) = f[y] + SumFunctionOnSet(f, S \ {y})
<1> DEFINE Good == {s \in SUBSET S : \A x \in s : SumFunctionOnSet(f, s)
                                              = f[x] + SumFunctionOnSet(f, s \ {x})}
<1>1. ASSUME NEW s \in SUBSET S, \A r \in SUBSET s : r # s => r \in Good
      PROVE  s \in Good
  <2> SUFFICES ASSUME NEW x \in s
               PROVE  SumFunctionOnSet(f, s) = f[x] + SumFunctionOnSet(f, s \ {x})
    OBVIOUS
  <2> DEFINE p == FirstOf(s)
             c == s \ {p}
             d == s \ {x}
             e == s \ {p, x}
  <2>1. IsFiniteSet(s) /\ IsFiniteSet(d)
    BY FS_Subset
  <2>2. p \in s /\ SumFunctionOnSet(f, s) = f[p] + SumFunctionOnSet(f, c)
    BY <2>1, SumPick
  <2>3. CASE x = p
    BY <2>2, <2>3
  <2>4. CASE x # p
    <3>1. SumFunctionOnSet(f, c) = f[x] + SumFunctionOnSet(f, e)
      <4>1. c \in Good /\ x \in c /\ c \ {x} = e
        BY <1>1, <2>2, <2>4
      <4>. QED
        BY <4>1
    <3>2. SumFunctionOnSet(f, d) = f[p] + SumFunctionOnSet(f, e)
      <4>1. d \in Good /\ p \in d /\ d \ {p} = e
        BY <1>1, <2>2, <2>4
      <4>. QED
        BY <4>1
    <3>3. IsFiniteSet(e) /\ \A z \in e : f[z] \in Int
      BY <2>1, FS_Subset
    <3>4. SumFunctionOnSet(f, e) \in Int /\ f[p] \in Int /\ f[x] \in Int
      BY <3>3, <2>2, SumInt
    <3>. HIDE DEF c, d, e, p
    <3>. QED
      BY <2>2, <3>1, <3>2, <3>4 DEF d
  <2>. QED
    BY <2>3, <2>4
<1>2. Good = SUBSET S
  <2>1. Good \in SUBSET SUBSET S
    OBVIOUS
  <2>. HIDE DEF Good
  <2>. QED
    BY <1>1, <2>1, SubsetInduction
<1>. QED
  BY <1>2

-----------------------------------------------------------------------------
(***************************************************************************)
(* The same for the sum of all values of a function.                       *)
(***************************************************************************)

\* Nothing adds up to nothing.
LEMMA TotalEmpty == \A f : DOMAIN f = {} => SumFunction(f) = 0
BY SumEmpty DEF SumFunction

\* A function on a finite set with integer values.
IsSummable(f) == IsFiniteSet(DOMAIN f) /\ \A x \in DOMAIN f : f[x] \in Int

\* Integers add up to an integer.
LEMMA TotalInt == \A f : IsSummable(f) => SumFunction(f) \in Int
BY SumInt DEF SumFunction, IsSummable

\* g is f with one more argument.
IsOneMore(f, g, y) ==
  /\ IsSummable(g) /\ y \in DOMAIN g /\ DOMAIN f = DOMAIN g \ {y}
  /\ \A x \in DOMAIN f : f[x] = g[x]

\* A function with one more argument adds its value.
LEMMA TotalAdd ==
  \A f, g, y : IsOneMore(f, g, y) =>
    SumFunction(f) \in Int /\ SumFunction(g) = SumFunction(f) + g[y]
<1> SUFFICES ASSUME NEW f, NEW g, NEW y, IsOneMore(f, g, y)
             PROVE  SumFunction(f) \in Int /\ SumFunction(g) = SumFunction(f) + g[y]
  OBVIOUS
<1> DEFINE T == DOMAIN g
           S == T \ {y}
<1>0. /\ IsFiniteSet(T) /\ y \in T /\ DOMAIN f = S
      /\ \A x \in T : g[x] \in Int
      /\ \A x \in S : f[x] = g[x]
  BY DEF IsOneMore, IsSummable
<1>1. IsFiniteSet(S)
  BY <1>0, FS_Subset
<1>2. SumFunctionOnSet(g, T) = g[y] + SumFunctionOnSet(g, S)
  BY <1>0, SumTake
<1>3. SumFunctionOnSet(g, S) = SumFunctionOnSet(f, S)
  BY <1>0, <1>1, SumSame
<1>4. SumFunctionOnSet(f, S) \in Int
  BY <1>0, <1>1, SumInt
<1>5. SumFunction(f) = SumFunctionOnSet(f, S) /\ SumFunction(g) = SumFunctionOnSet(g, T)
  BY <1>0 DEF SumFunction
<1>6. SumFunctionOnSet(g, T) = g[y] + SumFunctionOnSet(f, S) /\ g[y] \in Int
  BY <1>0, <1>2, <1>3
<1>. QED
  BY <1>4, <1>5, <1>6

\* Larger summands have a larger sum.
LEMMA TotalMonotone ==
  \A f, g : /\ IsSummable(f) /\ IsSummable(g) /\ DOMAIN f = DOMAIN g
            /\ \A x \in DOMAIN g : f[x] <= g[x]
    => SumFunction(f) <= SumFunction(g)
<1> SUFFICES ASSUME NEW f, NEW g, IsSummable(f), IsSummable(g), DOMAIN f = DOMAIN g,
                    \A x \in DOMAIN g : f[x] <= g[x]
             PROVE  SumFunction(f) <= SumFunction(g)
  OBVIOUS
<1> DEFINE S == DOMAIN g
<1>0. IsFiniteSet(S) /\ \A x \in S : f[x] \in Int /\ g[x] \in Int /\ f[x] <= g[x]
  BY DEF IsSummable
<1> DEFINE Good == {s \in SUBSET S : SumFunctionOnSet(f, s) <= SumFunctionOnSet(g, s)}
<1>1. ASSUME NEW s \in SUBSET S, \A r \in SUBSET s : r # s => r \in Good
      PROVE  s \in Good
  <2>1. IsFiniteSet(s)
    BY <1>0, FS_Subset
  <2>2. CASE s = {}
    BY <2>2, SumEmpty
  <2>3. CASE s # {}
    <3>1. PICK y : y \in s
      BY <2>3
    <3> DEFINE r == s \ {y}
    <3>2. SumFunctionOnSet(f, s) = f[y] + SumFunctionOnSet(f, r)
      BY <1>0, <2>1, <3>1, SumTake
    <3>3. SumFunctionOnSet(g, s) = g[y] + SumFunctionOnSet(g, r)
      BY <1>0, <2>1, <3>1, SumTake
    <3>4. r \in Good /\ IsFiniteSet(r)
      BY <1>1, <2>1, <3>1, FS_Subset
    <3>5. SumFunctionOnSet(f, r) \in Int /\ SumFunctionOnSet(g, r) \in Int
      BY <1>0, <3>4, SumInt
    <3>6. f[y] <= g[y] /\ f[y] \in Int /\ g[y] \in Int
      BY <1>0, <3>1
    <3>7. SumFunctionOnSet(f, r) <= SumFunctionOnSet(g, r)
      BY <3>4
    <3>. HIDE DEF r
    <3>8. SumFunctionOnSet(f, s) <= SumFunctionOnSet(g, s)
      BY <3>2, <3>3, <3>5, <3>6, <3>7
    <3>. QED
      BY <3>8
  <2>. QED
    BY <2>2, <2>3
<1>2. Good = SUBSET S
  <2>1. Good \in SUBSET SUBSET S
    OBVIOUS
  <2>. HIDE DEF Good
  <2>. QED
    BY <1>0, <1>1, <2>1, SubsetInduction
<1>3. S \in Good
  BY <1>2
<1>. QED
  BY <1>3 DEF SumFunction

\* Naturals add up to a natural.
LEMMA TotalNat ==
  \A f : IsSummable(f) /\ (\A x \in DOMAIN f : f[x] >= 0) => SumFunction(f) \in Nat
<1> SUFFICES ASSUME NEW f, IsSummable(f), \A x \in DOMAIN f : f[x] >= 0
             PROVE  SumFunction(f) \in Nat
  OBVIOUS
<1> DEFINE S == DOMAIN f
<1>0. IsFiniteSet(S) /\ \A x \in S : f[x] \in Int /\ f[x] >= 0
  BY DEF IsSummable
<1> DEFINE zero == [x \in S |-> 0]
           Good == {s \in SUBSET S : SumFunctionOnSet(zero, s) = 0}
<1>1. ASSUME NEW s \in SUBSET S, \A r \in SUBSET s : r # s => r \in Good
      PROVE  s \in Good
  <2>1. CASE s = {}
    BY <2>1, SumEmpty
  <2>2. CASE s # {}
    <3>1. PICK y : y \in s
      BY <2>2
    <3>2. IsFiniteSet(s) /\ zero[y] = 0 /\ \A x \in s : zero[x] \in Int
      BY <1>0, <3>1, FS_Subset
    <3>3. s \ {y} \in Good
      BY <1>1, <3>1
    <3>4. SumFunctionOnSet(zero, s) = zero[y] + SumFunctionOnSet(zero, s \ {y})
      BY <3>1, <3>2, SumTake
    <3>. QED
      BY <3>2, <3>3, <3>4
  <2>. QED
    BY <2>1, <2>2
<1>2. Good = SUBSET S
  <2>1. Good \in SUBSET SUBSET S
    OBVIOUS
  <2>. HIDE DEF Good
  <2>. QED
    BY <1>0, <1>1, <2>1, SubsetInduction
<1>3. SumFunction(zero) = 0
  <2>1. S \in Good
    BY <1>2
  <2>. QED
    BY <2>1 DEF SumFunction
<1>4. SumFunction(f) \in Int
  BY TotalInt
<1>5. SumFunction(zero) <= SumFunction(f)
  <2>1. DOMAIN zero = S /\ IsSummable(zero) /\ \A x \in S : zero[x] <= f[x]
    BY <1>0 DEF IsSummable
  <2>. HIDE DEF zero
  <2>. QED
    BY <2>1, TotalMonotone
<1>. HIDE DEF zero
<1>. QED
  BY <1>3, <1>4, <1>5

\* h is f with g added where g is defined.
IsRaised(f, g, h) ==
  /\ IsSummable(f) /\ IsSummable(g) /\ IsSummable(h)
  /\ DOMAIN f = DOMAIN h /\ DOMAIN g \subseteq DOMAIN h
  /\ \A x \in DOMAIN h : h[x] = IF x \in DOMAIN g THEN f[x] + g[x] ELSE f[x]

\* What some summands are raised by, the sum is raised by.
LEMMA TotalRaised ==
  \A f, g, h : IsRaised(f, g, h) => SumFunction(h) = SumFunction(f) + SumFunction(g)
<1> SUFFICES ASSUME NEW f, NEW g, NEW h, IsRaised(f, g, h)
             PROVE  SumFunction(h) = SumFunction(f) + SumFunction(g)
  OBVIOUS
<1> DEFINE S == DOMAIN h
           R == DOMAIN g
<1>0. /\ IsFiniteSet(S) /\ DOMAIN f = S /\ R \subseteq S
      /\ \A x \in S : f[x] \in Int /\ h[x] \in Int
      /\ \A x \in R : g[x] \in Int /\ h[x] = f[x] + g[x]
      /\ \A x \in S : x \notin R => h[x] = f[x]
  BY DEF IsRaised, IsSummable
<1> DEFINE Good == {s \in SUBSET S : SumFunctionOnSet(h, s)
                      = SumFunctionOnSet(f, s) + SumFunctionOnSet(g, s \cap R)}
<1>1. ASSUME NEW s \in SUBSET S, \A r \in SUBSET s : r # s => r \in Good
      PROVE  s \in Good
  <2>1. IsFiniteSet(s) /\ IsFiniteSet(s \cap R)
    BY <1>0, FS_Subset
  <2>2. CASE s = {}
    <3>1. s \cap R = {}
      BY <2>2
    <3>. QED
      BY <2>2, <3>1, SumEmpty
  <2>3. CASE s # {}
    <3>1. PICK y : y \in s
      BY <2>3
    <3> DEFINE r == s \ {y}
               a == SumFunctionOnSet(f, r)
               b == SumFunctionOnSet(g, r \cap R)
    <3>2. SumFunctionOnSet(f, s) = f[y] + a
      BY <1>0, <2>1, <3>1, SumTake
    <3>3. SumFunctionOnSet(h, s) = h[y] + SumFunctionOnSet(h, r)
      BY <1>0, <2>1, <3>1, SumTake
    <3>4. SumFunctionOnSet(h, r) = a + b /\ IsFiniteSet(r) /\ IsFiniteSet(r \cap R)
      BY <1>1, <2>1, <3>1, FS_Subset
    <3>5. a \in Int /\ b \in Int
      BY <1>0, <3>4, SumInt
    <3>6. f[y] \in Int /\ h[y] \in Int
      BY <1>0, <3>1
    <3>7. CASE y \in R
      <4>1. y \in s \cap R /\ (s \cap R) \ {y} = r \cap R /\ \A x \in s \cap R : g[x] \in Int
        BY <1>0, <3>1, <3>7
      <4>2. SumFunctionOnSet(g, s \cap R) = g[y] + SumFunctionOnSet(g, (s \cap R) \ {y})
        BY <2>1, <4>1, SumTake
      <4>3. SumFunctionOnSet(g, s \cap R) = g[y] + b
        BY <4>1, <4>2
      <4>4. h[y] = f[y] + g[y] /\ g[y] \in Int
        BY <1>0, <3>7
      <4>. HIDE DEF a, b, r
      <4>5. SumFunctionOnSet(h, s) = SumFunctionOnSet(f, s) + SumFunctionOnSet(g, s \cap R)
        BY <3>2, <3>3, <3>4, <3>5, <3>6, <4>3, <4>4
      <4>. QED
        BY <4>5
    <3>8. CASE y \notin R
      <4>1. s \cap R = r \cap R
        BY <3>8
      <4>2. h[y] = f[y] /\ SumFunctionOnSet(g, s \cap R) = b
        BY <1>0, <3>1, <3>8, <4>1
      <4>. HIDE DEF a, b, r
      <4>3. SumFunctionOnSet(h, s) = SumFunctionOnSet(f, s) + SumFunctionOnSet(g, s \cap R)
        BY <3>2, <3>3, <3>4, <3>5, <3>6, <4>2
      <4>. QED
        BY <4>3
    <3>. QED
      BY <3>7, <3>8
  <2>. QED
    BY <2>2, <2>3
<1>2. Good = SUBSET S
  <2>1. Good \in SUBSET SUBSET S
    OBVIOUS
  <2>. HIDE DEF Good
  <2>. QED
    BY <1>0, <1>1, <2>1, SubsetInduction
<1>3. S \in Good
  BY <1>2
<1>4. S \cap R = R
  BY <1>0
<1>. QED
  BY <1>0, <1>3, <1>4 DEF SumFunction

\* Nothing adds up to nothing.
LEMMA TotalZero ==
  \A f : IsFiniteSet(DOMAIN f) /\ (\A x \in DOMAIN f : f[x] = 0) => SumFunction(f) = 0
<1> SUFFICES ASSUME NEW f, IsFiniteSet(DOMAIN f), \A x \in DOMAIN f : f[x] = 0
             PROVE  SumFunction(f) = 0
  OBVIOUS
<1>1. IsSummable(f)
  BY DEF IsSummable
<1>2. IsRaised(f, f, f)
  BY <1>1 DEF IsRaised
<1>3. SumFunction(f) = SumFunction(f) + SumFunction(f)
  BY <1>2, TotalRaised
<1>4. SumFunction(f) \in Int
  BY <1>1, TotalInt
<1>5. \A t \in Int : t = t + t => t = 0
  OBVIOUS
<1>. QED
  BY <1>3, <1>4, <1>5

\* h lists f's summands, then g's.
IsJoined(f, g, h, m, n) ==
  /\ m \in Nat /\ n \in Nat
  /\ DOMAIN f = 1..m /\ DOMAIN g = 1..n /\ DOMAIN h = 1..(m + n)
  /\ \A i \in 1..m : f[i] \in Int /\ h[i] = f[i]
  /\ \A i \in 1..n : g[i] \in Int /\ h[m + i] = g[i]

\* The sum over a concatenation is that of its parts.
LEMMA TotalJoined ==
  \A f, g, h, m, n : IsJoined(f, g, h, m, n) =>
    SumFunction(h) = SumFunction(f) + SumFunction(g)
<1> SUFFICES ASSUME NEW f, NEW g, NEW h, NEW m, NEW n, IsJoined(f, g, h, m, n)
             PROVE  SumFunction(h) = SumFunction(f) + SumFunction(g)
  OBVIOUS
<1>0. /\ m \in Nat /\ n \in Nat
      /\ DOMAIN f = 1..m /\ DOMAIN g = 1..n /\ DOMAIN h = 1..(m + n)
      /\ \A i \in 1..m : f[i] \in Int /\ h[i] = f[i]
      /\ \A i \in 1..n : g[i] \in Int /\ h[m + i] = g[i]
  BY DEF IsJoined
<1>1. \A i \in 1..(m + n) : h[i] \in Int
  <2> SUFFICES ASSUME NEW i \in 1..(m + n) PROVE h[i] \in Int
    OBVIOUS
  <2>1. CASE i <= m
    BY <1>0, <2>1
  <2>2. CASE i > m
    <3>1. i - m \in 1..n /\ m + (i - m) = i
      BY <1>0, <2>2
    <3>. QED
      BY <1>0, <3>1
  <2>. QED
    BY <1>0, <2>1, <2>2
<1> DEFINE P(k) == k <= n => SumFunctionOnSet(h, 1..(m + k))
                       = SumFunctionOnSet(f, 1..m) + SumFunctionOnSet(g, 1..k)
           Good == {k \in Nat : P(k)}
<1>2. IsFiniteSet(1..m)
  BY <1>0, FS_Interval
<1>3. 0 \in Good
  <2>1. m + 0 = m /\ 1..0 = {}
    BY <1>0
  <2>2. SumFunctionOnSet(h, 1..m) = SumFunctionOnSet(f, 1..m)
    BY <1>0, <1>2, SumSame
  <2>3. SumFunctionOnSet(g, 1..0) = 0
    BY <2>1, SumEmpty
  <2>4. SumFunctionOnSet(f, 1..m) \in Int
    BY <1>0, <1>2, SumInt
  <2>. QED
    BY <2>1, <2>2, <2>3, <2>4
<1>4. ASSUME NEW k \in Good PROVE k + 1 \in Good
  <2> SUFFICES ASSUME k + 1 <= n PROVE P(k + 1)
    OBVIOUS
  <2> DEFINE T == 1..(m + (k + 1))
             U == 1..(k + 1)
             a == SumFunctionOnSet(f, 1..m)
             b == SumFunctionOnSet(g, 1..k)
  <2>1. /\ k \in Nat /\ k <= n /\ m + (k + 1) \in T /\ T \ {m + (k + 1)} = 1..(m + k)
        /\ k + 1 \in U /\ U \ {k + 1} = 1..k /\ k + 1 \in 1..n
    BY <1>0
  <2>2. SumFunctionOnSet(h, 1..(m + k)) = a + b
    BY <2>1
  <2>3. k \in Int /\ k + 1 \in Int /\ m + (k + 1) \in Int
    BY <1>0
  <2>4. IsFiniteSet(1..k) /\ IsFiniteSet(1..(k + 1)) /\ IsFiniteSet(1..(m + (k + 1)))
    BY <2>3, FS_Interval
  <2>5. T \subseteq 1..(m + n) /\ U \subseteq 1..n /\ 1..k \subseteq 1..n
    BY <1>0
  <2>6. (\A x \in T : h[x] \in Int) /\ (\A x \in U : g[x] \in Int) /\ \A x \in 1..k : g[x] \in Int
    BY <1>0, <1>1, <2>5
  <2>7. h[m + (k + 1)] = g[k + 1] /\ g[k + 1] \in Int
    BY <1>0, <2>1
  <2>8. a \in Int /\ b \in Int
    BY <1>0, <1>2, <2>4, <2>6, SumInt
  <2>. HIDE DEF T, U
  <2>9. SumFunctionOnSet(h, T) = h[m + (k + 1)] + SumFunctionOnSet(h, T \ {m + (k + 1)})
    BY <2>1, <2>4, <2>6, SumTake DEF T
  <2>10. SumFunctionOnSet(g, U) = g[k + 1] + SumFunctionOnSet(g, U \ {k + 1})
    BY <2>1, <2>4, <2>6, SumTake DEF U
  <2>. HIDE DEF a, b
  <2>11. SumFunctionOnSet(h, T) = g[k + 1] + (a + b)
    BY <2>1, <2>2, <2>7, <2>9
  <2>12. SumFunctionOnSet(g, U) = g[k + 1] + b
    BY <2>1, <2>10 DEF b
  <2>13. SumFunctionOnSet(h, T) = a + SumFunctionOnSet(g, U)
    BY <2>7, <2>8, <2>11, <2>12
  <2>. QED
    BY <2>13 DEF T, U, a
<1>5. Good = Nat
  <2>1. Good \in SUBSET Nat
    OBVIOUS
  <2>. HIDE DEF Good
  <2>. QED
    BY <1>3, <1>4, <2>1, NatSetInduction
<1>6. P(n)
  <2>1. n \in Good
    BY <1>0, <1>5
  <2>. QED
    BY <2>1
<1>7. SumFunctionOnSet(h, 1..(m + n)) = SumFunctionOnSet(f, 1..m) + SumFunctionOnSet(g, 1..n)
  BY <1>0, <1>6
<1>. QED
  BY <1>0, <1>7 DEF SumFunction

-----------------------------------------------------------------------------
(***************************************************************************)
(* Sums over parts of a set, and of functions that depend on another one.  *)
(***************************************************************************)

\* A sum is that over a part and that over the rest.
LEMMA SumSplit ==
  ASSUME NEW S, IsFiniteSet(S), NEW f, \A x \in S : f[x] \in Int, NEW R \in SUBSET S
  PROVE  SumFunctionOnSet(f, S) = SumFunctionOnSet(f, R) + SumFunctionOnSet(f, S \ R)
<1> DEFINE Q == S \ R
           Good == {s \in SUBSET R :
                      SumFunctionOnSet(f, Q \cup s) = SumFunctionOnSet(f, s) + SumFunctionOnSet(f, Q)}
<1>0. IsFiniteSet(R) /\ IsFiniteSet(Q)
  BY FS_Subset
<1>1. ASSUME NEW s \in SUBSET R, \A r \in SUBSET s : r # s => r \in Good
      PROVE  s \in Good
  <2>0. SumFunctionOnSet(f, Q) \in Int
    BY <1>0, SumInt
  <2>1. CASE s = {}
    <3>1. Q \cup s = Q
      BY <2>1
    <3>. QED
      BY <2>0, <2>1, <3>1, SumEmpty
  <2>2. CASE s # {}
    <3>1. PICK y \in s : TRUE
      BY <2>2
    <3> DEFINE t == s \ {y}
    <3>2. IsFiniteSet(s) /\ IsFiniteSet(t) /\ IsFiniteSet(Q \cup s)
      <4>1. s \subseteq S /\ t \subseteq S /\ Q \cup s \subseteq S
        OBVIOUS
      <4>. QED
        BY <4>1, FS_Subset
    <3>3. SumFunctionOnSet(f, s) = f[y] + SumFunctionOnSet(f, t)
      BY <3>1, <3>2, SumTake
    <3>4. SumFunctionOnSet(f, Q \cup s) = f[y] + SumFunctionOnSet(f, Q \cup t)
      <4>1. (Q \cup s) \ {y} = Q \cup t /\ y \in Q \cup s /\ \A x \in Q \cup s : f[x] \in Int
        BY <3>1
      <4>. HIDE DEF Q, t
      <4>2. SumFunctionOnSet(f, Q \cup s) = f[y] + SumFunctionOnSet(f, (Q \cup s) \ {y})
        BY <3>2, <4>1, SumTake
      <4>. QED
        BY <4>1, <4>2
    <3>5. SumFunctionOnSet(f, Q \cup t) = SumFunctionOnSet(f, t) + SumFunctionOnSet(f, Q)
      BY <1>1, <3>1
    <3>6. SumFunctionOnSet(f, t) \in Int /\ f[y] \in Int
      <4>1. \A x \in t : f[x] \in Int
        OBVIOUS
      <4>. QED
        BY <3>1, <3>2, <4>1, SumInt
    <3>. HIDE DEF Q, t
    <3>7. SumFunctionOnSet(f, Q \cup s) = SumFunctionOnSet(f, s) + SumFunctionOnSet(f, Q)
      BY <2>0, <3>3, <3>4, <3>5, <3>6
    <3>. QED
      BY <3>7
  <2>. QED
    BY <2>1, <2>2
<1>2. Good = SUBSET R
  <2>1. Good \in SUBSET SUBSET R
    OBVIOUS
  <2>. HIDE DEF Good
  <2>. QED
    BY <1>0, <1>1, <2>1, SubsetInduction
<1>3. Q \cup R = S
  OBVIOUS
<1>4. SumFunctionOnSet(f, Q \cup R) = SumFunctionOnSet(f, R) + SumFunctionOnSet(f, Q)
  BY <1>2
<1>. QED
  BY <1>3, <1>4

\* What is l times another function and u more, adds up so.
LEMMA SumAffine ==
  ASSUME NEW S, IsFiniteSet(S), NEW f, NEW h, NEW l \in Int, NEW u \in Int,
         \A x \in S : f[x] \in Int /\ h[x] = l * f[x] + u
  PROVE  SumFunctionOnSet(h, S) = l * SumFunctionOnSet(f, S) + Cardinality(S) * u
<1> DEFINE Fits(s) ==
             SumFunctionOnSet(h, s) = l * SumFunctionOnSet(f, s) + Cardinality(s) * u
           Good == {s \in SUBSET S : Fits(s)}
<1>1. ASSUME NEW s \in SUBSET S, \A r \in SUBSET s : r # s => r \in Good
      PROVE  s \in Good
  <2>1. CASE s = {}
    <3>1. SumFunctionOnSet(h, {}) = 0 /\ SumFunctionOnSet(f, {}) = 0 /\ Cardinality({}) = 0
      BY SumEmpty, FS_EmptySet
    <3>2. l * 0 + 0 * u = 0
      OBVIOUS
    <3>. QED
      BY <2>1, <3>1, <3>2
  <2>2. CASE s # {}
    <3>1. PICK y \in s : TRUE
      BY <2>2
    <3> DEFINE t == s \ {y}
    <3>2. IsFiniteSet(s) /\ IsFiniteSet(t)
      BY FS_Subset
    <3>3. Cardinality(t) \in Int /\ Cardinality(s) = Cardinality(t) + 1
      <4>1. Cardinality(t) = Cardinality(s) - 1
        BY <3>1, <3>2, FS_RemoveElement
      <4>2. Cardinality(t) \in Nat /\ Cardinality(s) \in Nat
        BY <3>2, FS_CardinalityType
      <4>. QED
        BY <4>1, <4>2
    <3>4. \A x \in s : f[x] \in Int /\ h[x] \in Int
      <4>1. \A a \in Int : l * a + u \in Int
        OBVIOUS
      <4>. QED
        BY <4>1
    <3>5. /\ SumFunctionOnSet(h, s) = h[y] + SumFunctionOnSet(h, t)
          /\ SumFunctionOnSet(f, s) = f[y] + SumFunctionOnSet(f, t)
      BY <3>1, <3>2, <3>4, SumTake
    <3>6. SumFunctionOnSet(f, t) \in Int /\ f[y] \in Int /\ h[y] = l * f[y] + u
      <4>1. \A x \in t : f[x] \in Int
        OBVIOUS
      <4>. QED
        BY <3>1, <3>2, <4>1, SumInt
    <3>7. Fits(t)
      BY <1>1, <3>1
    <3>8. \A a, b, c, p, q \in Int :
            p = l * a + u /\ q = l * b + c * u => p + q = l * (a + b) + (c + 1) * u
      OBVIOUS
    <3>9. SumFunctionOnSet(h, t) \in Int /\ h[y] \in Int
      BY <3>2, <3>4, <3>1, SumInt
    <3>. HIDE DEF t
    <3>10. h[y] + SumFunctionOnSet(h, t)
             = l * (f[y] + SumFunctionOnSet(f, t)) + (Cardinality(t) + 1) * u
      BY <3>3, <3>6, <3>7, <3>8, <3>9
    <3>. QED
      BY <3>3, <3>5, <3>10
  <2>. QED
    BY <2>1, <2>2
<1>2. Good = SUBSET S
  <2>1. Good \in SUBSET SUBSET S
    OBVIOUS
  <2>. HIDE DEF Good
  <2>. QED
    BY <1>1, <2>1, SubsetInduction
<1>. QED
  BY <1>2

\* What is nowhere more than u adds up to u for each at most.
LEMMA SumAtMost ==
  ASSUME NEW S, IsFiniteSet(S), NEW f, NEW u \in Int, \A x \in S : f[x] \in Int /\ f[x] <= u
  PROVE  SumFunctionOnSet(f, S) <= Cardinality(S) * u
<1> DEFINE Good == {s \in SUBSET S : SumFunctionOnSet(f, s) <= Cardinality(s) * u}
<1>1. ASSUME NEW s \in SUBSET S, \A r \in SUBSET s : r # s => r \in Good
      PROVE  s \in Good
  <2>1. CASE s = {}
    <3>1. SumFunctionOnSet(f, {}) = 0 /\ Cardinality({}) = 0
      BY SumEmpty, FS_EmptySet
    <3>2. 0 <= 0 * u
      OBVIOUS
    <3>. QED
      BY <2>1, <3>1, <3>2
  <2>2. CASE s # {}
    <3>1. PICK y \in s : TRUE
      BY <2>2
    <3> DEFINE t == s \ {y}
    <3>2. IsFiniteSet(s) /\ IsFiniteSet(t)
      BY FS_Subset
    <3>3. Cardinality(t) \in Int /\ Cardinality(s) = Cardinality(t) + 1
      <4>1. Cardinality(t) = Cardinality(s) - 1
        BY <3>1, <3>2, FS_RemoveElement
      <4>2. Cardinality(t) \in Nat /\ Cardinality(s) \in Nat
        BY <3>2, FS_CardinalityType
      <4>. QED
        BY <4>1, <4>2
    <3>4. SumFunctionOnSet(f, s) = f[y] + SumFunctionOnSet(f, t)
      <4>1. \A x \in s : f[x] \in Int
        OBVIOUS
      <4>. QED
        BY <3>1, <3>2, <4>1, SumTake
    <3>5. SumFunctionOnSet(f, t) \in Int /\ f[y] \in Int /\ f[y] <= u
      <4>1. \A x \in t : f[x] \in Int
        OBVIOUS
      <4>. QED
        BY <3>1, <3>2, <4>1, SumInt
    <3>6. SumFunctionOnSet(f, t) <= Cardinality(t) * u
      BY <1>1, <3>1
    <3>7. \A a, b, c \in Int : a <= u /\ b <= c * u => a + b <= (c + 1) * u
      OBVIOUS
    <3>. HIDE DEF t
    <3>8. f[y] + SumFunctionOnSet(f, t) <= (Cardinality(t) + 1) * u
      BY <3>3, <3>5, <3>6, <3>7
    <3>. QED
      BY <3>3, <3>4, <3>8
  <2>. QED
    BY <2>1, <2>2
<1>2. Good = SUBSET S
  <2>1. Good \in SUBSET SUBSET S
    OBVIOUS
  <2>. HIDE DEF Good
  <2>. QED
    BY <1>1, <2>1, SubsetInduction
<1>. QED
  BY <1>2
=============================================================================
