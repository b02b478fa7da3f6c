----------------------------- MODULE ClvEvidence -----------------------------
(***************************************************************************)
(* The evidence of a validation window, shared by the Scout                *)
(* (app/scout/forward.py) and niche discovery (app/discovery/forward.py,   *)
(* which imports the Scout's functions), and the Wilson bound of a win     *)
(* rate (app/risk/calibration.py).  Bounds are compared, never computed:   *)
(* each comparison is cleared of its fractions and its square root.        *)
(***************************************************************************)
EXTENDS Integers, SequencesExt

\* The sum of an integer-valued function over its domain.
Total(f) == MapThenSumSet(LAMBDA x : f[x], DOMAIN f)

\* The lower end of the 95% interval of the mean of the CLVs is above zero: with
\* n values of sum s and sum of squares q, s/n > 1.96 * sqrt((q - s^2/n) / (n-1) / n).
\* One value is its own interval, and no value is not above zero.
CiLowAboveZero(clvs) ==
  LET n == Cardinality(DOMAIN clvs)
      s == Total(clvs)
      q == Total([x \in DOMAIN clvs |-> clvs[x] * clvs[x]])
  IN  s > 0 /\ (n > 1 => 10000 * s * s * (n - 1) > 38416 * (n * q - s * s))

\* The number of distinct event clusters the trades span.
EffectiveSampleSize(clusters) == Cardinality(Range(clusters))

\* A window closes once it spans enough time and enough distinct events.
WindowReadyToClose(start, at, span, effective, minimum) ==
  at - start >= span /\ effective >= minimum

\* The lower end of the 95% Wilson interval of `wins` out of n, both counted in units
\* of 1/unit, is above percent/100: the interval holds the rates p0 that
\* (p - p0)^2 > 1.96^2 p0 (1 - p0) / n does not reject; 38416/10000 is 2401/625.
WilsonLowAboveIn(unit, wins, n, percent) ==
  LET lead == 100 * wins - percent * n
  IN  /\ lead > 0
      /\ lead * lead > (2401 * n * unit * percent * (100 - percent)) \div 625

WilsonLowAbove(wins, n, percent) == WilsonLowAboveIn(1, wins, n, percent)

\* The bound in whole percent, for ranking.
WilsonLowPercentIn(unit, wins, n) ==
  Cardinality({c \in 0..99 : WilsonLowAboveIn(unit, wins, n, c)})

WilsonLowPercent(wins, n) == WilsonLowPercentIn(1, wins, n)
=============================================================================
