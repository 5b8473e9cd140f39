----------------------------- MODULE Projection -----------------------------
(***************************************************************************)
(* simulateProjection and its helpers (src/web/model.mjs): what the page   *)
(* makes of the rings done, their score, and the task rows of the public   *)
(* model, each row [bucket, score, count].  Costs and prices, which are    *)
(* carried along in the same way as scores, are left out.                  *)
(*                                                                         *)
(* The draws of a simulation are an argument: the total each run gains in  *)
(* the rings that remain.                                                  *)
(***************************************************************************)
EXTENDS RewardRules

CONSTANTS
  LastRing,             \* 100 in the code
  BucketSize,           \* 10
  MinPredictionRings,   \* 10
  MinSimulationRings,   \* 20
  MinSimulationSamples, \* 200
  MinBucketSamples,     \* 20
  Runs                  \* 3000

ASSUME ProjectionAssumption ==
  /\ {LastRing, BucketSize, MinSimulationSamples, MinBucketSamples, Runs} \subseteq Nat \ {0}
  /\ MinPredictionRings \in 1..LastRing
  /\ MinSimulationRings \in MinPredictionRings..LastRing

SampleCount(rows) == MapThenSumSet(LAMBDA row : row.count, rows)

\* Math.round(n / d)
Rounded(n, d) == (2 * n + d) \div (2 * d)

NoTier == [tier \in Tiers |-> 0]

UnavailableProjection ==
  [method |-> "insufficient", expected |-> 0, p10 |-> 0, p50 |-> 0, p90 |-> 0,
   tier |-> 0, hits |-> NoTier]

\* The average of the rings done, carried on; its tier counts for every run.
FallbackProjection(ring, score, level) ==
  LET expected == Rounded(score * LastRing, ring)
      tier == RewardTier(level, expected)
  IN
  [method |-> "average", expected |-> expected, p10 |-> expected, p50 |-> expected,
   p90 |-> expected, tier |-> tier,
   hits |-> [t \in Tiers |-> IF t = tier THEN Runs ELSE 0]]

\* Slip: the bucket of the ring before each that remains.
RemainingBucketsBehind(ring) ==
  {(n - 1) \div BucketSize + 1 : n \in ring..(LastRing - 1)}

\* Of the rings ring + 1 to LastRing.
RemainingBuckets(ring) ==
  {(ring + index) \div BucketSize + 1 : index \in 0..(LastRing - ring - 1)}

Covered(ring, rows) ==
  \A bucket \in RemainingBuckets(ring) :
    SampleCount({row \in rows : row.bucket = bucket}) >= MinBucketSamples

Simulates(ring, rows) ==
  /\ ring >= MinSimulationRings
  /\ SampleCount(rows) >= MinSimulationSamples
  /\ Covered(ring, rows)

\* Slip: the ring just done is drawn again.
RingsToDrawAgain(ring) == ring..LastRing

RingsToDraw(ring) == (ring + 1)..LastRing

\* What a run can gain.  smoothDistribution adds the rows of all buckets to
\* the rows of one, so chooseWeighted can draw every row for every ring.
Gains(ring, rows) ==
  LET gain[n \in 0..(LastRing + 1)] ==
        IF n = 0 THEN {0} ELSE {g + row.score : g \in gain[n - 1], row \in rows}
  IN gain[Cardinality(RingsToDraw(ring))]

Draws(ring, rows) == [1..Runs -> Gains(ring, rows)]

\* sorted[i]
Ranked(totals, i) ==
  CHOOSE value \in {totals[run] : run \in 1..Runs} :
    /\ Cardinality({run \in 1..Runs : totals[run] < value}) <= i
    /\ Cardinality({run \in 1..Runs : totals[run] <= value}) > i

\* percentile(scores, tenths / 10)
Percentile(totals, tenths) == Ranked(totals, Rounded(tenths * (Runs - 1), 10))

\* Slip: a run counts for every tier it reaches, as the server's own projection counts.
TierHitsCumulative(level, totals) ==
  [t \in Tiers |-> Cardinality({run \in 1..Runs : totals[run] >= RewardThreshold(level, t)})]

TierHits(level, totals) ==
  [t \in Tiers |-> Cardinality({run \in 1..Runs : RewardTier(level, totals[run]) = t})]

Simulation(score, level, draws) ==
  LET totals == [run \in 1..Runs |-> score + draws[run]]
      expected == Rounded(MapThenSumSet(LAMBDA run : totals[run], 1..Runs), Runs)
  IN
  [method |-> "simulation", expected |-> expected,
   p10 |-> Percentile(totals, 1), p50 |-> Percentile(totals, 5),
   p90 |-> Percentile(totals, 9),
   tier |-> RewardTier(level, expected), hits |-> TierHits(level, totals)]

SimulateProjection(ring, score, level, rows, draws) ==
  CASE ring < MinPredictionRings -> UnavailableProjection
    [] ring >= MinPredictionRings /\ ~Simulates(ring, rows) ->
         FallbackProjection(ring, score, level)
    [] ring >= MinPredictionRings /\ Simulates(ring, rows) ->
         Simulation(score, level, draws)

RingAfter(ring) == IF ring < LastRing THEN ring + 1 ELSE LastRing

ProjectAfterResolution(ring, score, level, rows, gained, draws) ==
  SimulateProjection(RingAfter(ring), score + gained, level, rows, draws)

\* The rows expectedRewardValue averages: those of the level's band and the
\* score's bucket, else those of the band, else all.
RewardCandidates(rows, level, expected) ==
  LET band  == {row \in rows : row.levelBand = NearestLevelBand(level)}
      exact == {row \in band : row.scoreBucket = PageScoreBucket(expected)}
  IN IF exact # {} THEN exact ELSE IF band # {} THEN band ELSE rows
=============================================================================
