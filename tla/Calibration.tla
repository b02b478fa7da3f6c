----------------------------- MODULE Calibration -----------------------------
(***************************************************************************)
(* The win probability Kelly sizing uses (app/risk/calibration.py): the    *)
(* hit rate of the resolved trades in a signal's own bucket of strength    *)
(* and price, if these trades span enough distinct events.                 *)
(*                                                                         *)
(* A record is [cluster, score, price, won]; the cluster count and the     *)
(* weighted score of a signal are one number here, its score.  The records *)
(* are a function from the numbers of the trades' rows.                    *)
(***************************************************************************)
EXTENDS PaperPricing, SequencesExt

\* The band a value falls in, the last one from its lower end up, or 0 below
\* them all.
BandIndex(value, bands) ==
  LET holding == {i \in DOMAIN bands : bands[i].min <= value /\ value < bands[i].max}
  IN  CASE value < bands[1].min -> 0
        [] value >= bands[1].min /\ holding # {} -> Least(holding)
        [] OTHER -> Len(bands)

BucketKey(score, price, cal) ==
  <<BandIndex(score, cal.scoreBands), BandIndex(price, cal.priceBands)>>

Bucketable(key) == 0 \notin Range(key)

\* A market of no event is a cluster of its own.
ClusterKeyFor(market, event) == IF event = NoEvent THEN market ELSE event

EffectiveN(records, ids) == Cardinality({records[i].cluster : i \in ids})

\* The buckets whose records span enough events, with their hit rates.
TrustedBuckets(records, cal) ==
  LET keyOf(i) == BucketKey(records[i].score, records[i].price, cal)
      bucket(key) == {i \in DOMAIN records : keyOf(i) = key}
      wins(key) == Cardinality({i \in bucket(key) : records[i].won})
  IN  {[key |-> key, pHat |-> (100 * wins(key)) \div Cardinality(bucket(key))] :
         key \in {k \in {keyOf(i) : i \in DOMAIN records} :
                    Bucketable(k) /\ EffectiveN(records, bucket(k)) >= cal.minSamples}}

\* The rate of a signal's bucket in percent, or Skip if it is not to be trusted.
PHat(buckets, score, price, cal) ==
  LET mine == {b \in buckets : b.key = BucketKey(score, price, cal)}
  IN  IF mine = {} THEN Skip ELSE (CHOOSE b \in mine : TRUE).pHat
=============================================================================
