---------------------------- MODULE RewardRules ----------------------------
(***************************************************************************)
(* What the final score earns: thresholds and tiers (src/web/model.mjs and *)
(* src/internal/domain/rules.go, formula for formula the same), and the    *)
(* bands of levels and buckets of scores by which the server groups the    *)
(* rewards (api.go, sqlite.go) and the page looks them up (model.mjs).     *)
(***************************************************************************)
EXTENDS TaskRules, FiniteSetsExt

Tiers == {90, 100, 110, 120, 130, 140, 150}

\* ceil(220 - level / 3) + tier - 90
RewardThreshold(level, tier) ==
  IF level <= 0 \/ tier \notin Tiers THEN 0 ELSE 220 - level \div 3 + tier - 90

\* The highest tier reached, 0 for none.
RewardTier(level, score) ==
  LET reached == {tier \in Tiers : score >= RewardThreshold(level, tier)} IN
  IF reached = {} THEN 0 ELSE Max(reached)

LevelBands == {69, 89, 109, 129, 138, 155, 159, 170, 175}

Distance(a, b) == IF a < b THEN b - a ELSE a - b

NearestBands(level) ==
  {b \in LevelBands : \A c \in LevelBands : Distance(level, b) <= Distance(level, c)}

\* The server's, on a reward: of two bands equally near the one listed first.
PlayerLevelBand(level) == Min(NearestBands(level))

\* Slip: of two bands equally near the page takes the one listed last.
NearestLevelBandLast(level) == Max(NearestBands(level))

\* The page's, on the player's own level.
NearestLevelBand(level) == Min(NearestBands(level))

\* SQLite divides integers, and cuts off towards zero.
ServerScoreBucket(final) == Quotient(final, 10) * 10

\* Slip: the nearest bucket instead of the one below.
PageScoreBucketNear(score) == ((score + 5) \div 10) * 10

\* Math.floor
PageScoreBucket(score) == (score \div 10) * 10
=============================================================================
