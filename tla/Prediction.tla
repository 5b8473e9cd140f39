----------------------------- MODULE Prediction -----------------------------
(***************************************************************************)
(* From the samples on the server to the prediction on the page: the two   *)
(* tables, which all players change, AggregateModel (sqlite.go) query by   *)
(* query, loadPublicModel (app.mjs), and a page that renders projection,   *)
(* tiers, reward estimate and the comparison of ways to end the next ring. *)
(*                                                                         *)
(* The page renders at the end of every handler, so what it shows is a     *)
(* function of its cycle and its copy of the model.  Until its request for *)
(* the model is over a page has the same empty model as after a failed     *)
(* one; its own steps are taken after that.  Nobody asks a second time.    *)
(***************************************************************************)
EXTENDS Projection

CONSTANTS
  RequestedScores,   \* what the tasks on the server would have scored
  Finals,            \* final scores of the rewards on the server
  Levels,            \* levels of players
  RingInputs,        \* what is typed into the initial-ring field, clamped
  Setups,            \* what is typed into the initial-score field
  Compared,          \* tasks whose ways to end are compared
  MaxRows            \* bound: rows of both tables

ASSUME PredictionAssumption ==
  /\ RequestedScores \subseteq Int /\ Finals \subseteq Int /\ Setups \subseteq Int
  /\ RingInputs \subseteq 0..(LastRing - 1)
  /\ Levels \subseteq 1..200
  /\ Compared \subseteq Tasks
  /\ MaxRows \in Nat

VARIABLES
  tasks,     \* task_events: how many rows of a ring and a requested score
  rewards,   \* reward_events: how many rows of a player's level and a final score
  loading,   \* the page's request for the model
  buckets,   \* taskBuckets of the answer
  model,     \* publicModel
  cut,       \* history: a query of the answer broke off
  ring, score, level   \* the page's totals and playerLevel

tables == <<tasks, rewards>>
page   == <<ring, score, level>>
vars   == <<tables, loading, buckets, model, cut, page>>

TaskCells   == (1..LastRing) \X RequestedScores
RewardCells == Levels \X Finals

EmptyModel == [taskBuckets |-> {}, rewardBuckets |-> {}]

Rows == MapThenSumSet(LAMBDA c : tasks[c], TaskCells)
          + MapThenSumSet(LAMBDA c : rewards[c], RewardCells)

-----------------------------------------------------------------------------
(* The other players.                                                      *)

PostTask(cell) ==
  /\ loading \in {"asked", "counted"}
  /\ Rows < MaxRows
  /\ tasks' = [tasks EXCEPT ![cell] = @ + 1]
  /\ UNCHANGED <<rewards, loading, buckets, model, cut, page>>

DeleteTask(cell) ==
  /\ loading \in {"asked", "counted"}
  /\ tasks[cell] > 0
  /\ tasks' = [tasks EXCEPT ![cell] = @ - 1]
  /\ UNCHANGED <<rewards, loading, buckets, model, cut, page>>

PostReward(cell) ==
  /\ loading \in {"asked", "counted"}
  /\ Rows < MaxRows
  /\ rewards' = [rewards EXCEPT ![cell] = @ + 1]
  /\ UNCHANGED <<tasks, loading, buckets, model, cut, page>>

-----------------------------------------------------------------------------
(* AggregateModel, and the page's request for it.                          *)

TaskBucket(n) == (n - 1) \div BucketSize + 1

TaskAggregates(rows) ==
  {[bucket |-> TaskBucket(cell[1]), score |-> cell[2],
    count |-> MapThenSumSet(LAMBDA c : rows[c],
                {c \in TaskCells : /\ TaskBucket(c[1]) = TaskBucket(cell[1])
                                   /\ c[2] = cell[2]})] :
     cell \in {c \in TaskCells : rows[c] > 0}}

RewardGroup(cell) ==
  [levelBand |-> PlayerLevelBand(cell[1]), scoreBucket |-> ServerScoreBucket(cell[2])]

RewardAggregates(rows) ==
  {RewardGroup(cell) : cell \in {c \in RewardCells : rows[c] > 0}}

\* The rows a query is read into.  The loop over them ends at an error as it
\* does at the last row: nobody asks rows.Err.
Read(aggregates, read) ==
  /\ read \subseteq aggregates
  /\ cut' = (cut \/ read # aggregates)

QueryTasks(read) ==
  /\ loading = "asked"
  /\ Read(TaskAggregates(tasks), read)
  /\ loading' = "counted"
  /\ buckets' = read
  /\ UNCHANGED <<tables, model, page>>

\* The page has the answer.
QueryRewards(read) ==
  /\ loading = "counted"
  /\ Read(RewardAggregates(rewards), read)
  /\ loading' = "over"
  /\ model' = [taskBuckets |-> buckets, rewardBuckets |-> read]
  /\ buckets' = {}
  /\ UNCHANGED <<tables, page>>

\* fetch throws, or the answer is not ok.
ModelUnavailable ==
  /\ loading # "over"
  /\ loading' = "over"
  /\ buckets' = {}
  /\ UNCHANGED <<tables, model, cut, page>>

-----------------------------------------------------------------------------
(* The page.                                                               *)

\* updateCycleSetup on a cycle without entries.
UpdateCycleSetup(initialRing, initialScore, playerLevel) ==
  /\ loading = "over"
  /\ ring' = initialRing /\ score' = initialScore /\ level' = playerLevel
  /\ UNCHANGED <<tables, loading, buckets, model, cut>>

\* Slip: one ring more.
RingLeftAtEnd == ring <= LastRing

RingLeft == ring < LastRing

AddEntry(task, resolution, q) ==
  /\ loading = "over"
  /\ RingLeft
  /\ CanChooseResolution(resolution, score)
  /\ \E gained \in PageScores(task, resolution, q) : score' = score + gained
  /\ ring' = ring + 1
  /\ UNCHANGED <<tables, loading, buckets, model, cut, level>>

Init ==
  /\ tasks = [c \in TaskCells |-> 0]
  /\ rewards = [c \in RewardCells |-> 0]
  /\ loading = "asked"
  /\ buckets = {}
  /\ model = EmptyModel
  /\ cut = FALSE
  /\ ring = 0 /\ score = 0
  /\ level \in Levels

Next ==
  \/ \E cell \in TaskCells : PostTask(cell) \/ DeleteTask(cell)
  \/ \E cell \in RewardCells : PostReward(cell)
  \/ \E read \in SUBSET TaskAggregates(tasks) : QueryTasks(read)
  \/ \E read \in SUBSET RewardAggregates(rewards) : QueryRewards(read)
  \/ ModelUnavailable
  \/ \E initialRing \in RingInputs, initialScore \in Setups, playerLevel \in Levels :
       UpdateCycleSetup(initialRing, initialScore, playerLevel)
  \/ \E task \in Compared : \E resolution \in ResolutionsForTask(task) :
       AddEntry(task, resolution, NoQualities)

Spec == Init /\ [][Next]_vars

-----------------------------------------------------------------------------
(* What render() and renderDecisionComparison show.                        *)

Shown(draws) == SimulateProjection(ring, score, level, model.taskBuckets, draws)

\* Nothing is drawn where nothing is simulated.
PossibleDraws(ringsDone) ==
  IF Simulates(ringsDone, model.taskBuckets) THEN Draws(ringsDone, model.taskBuckets)
  ELSE {[run \in 1..Runs |-> 0]}

\* Slip: every option is compared by draws of its own.
OptionDrawsOwn(first) == PossibleDraws(RingAfter(ring))

\* What an option may see when another saw the first: the generator is seeded
\* anew for every option, so all see the same.
OptionDraws(first) == {first}

\* The options of a task that can be chosen now and whose score is known
\* without qualities.
Options(task) ==
  {r \in ResolutionsForTask(task) :
     /\ CanChooseResolution(r, score)
     /\ PageScores(task, r, NoQualities) # {}}

OptionScore(task, resolution) ==
  CHOOSE gained \in PageScores(task, resolution, NoQualities) : TRUE

OptionShown(task, resolution, draws) ==
  ProjectAfterResolution(ring, score, level, model.taskBuckets,
                         OptionScore(task, resolution), draws)

-----------------------------------------------------------------------------
(* Safety.                                                                 *)

TaskRows == [bucket : 1..TaskBucket(LastRing), score : RequestedScores, count : Nat \ {0}]
RewardRows == [levelBand : LevelBands, scoreBucket : Int]

\* The tables hold counts, the model only groups of existing rings, and the
\* page's ring never leaves the cycle (app.mjs:349, sqlite.go:188-229).
TypeOK ==
  /\ tasks \in [TaskCells -> Nat]
  /\ rewards \in [RewardCells -> Nat]
  /\ loading \in {"asked", "counted", "over"}
  /\ buckets \subseteq TaskRows
  /\ model.taskBuckets \subseteq TaskRows /\ model.rewardBuckets \subseteq RewardRows
  /\ cut \in BOOLEAN
  /\ ring \in 0..LastRing /\ score \in Int /\ level \in 1..200

\* Once the last ring is done every prediction is the score that was reached,
\* with its tier and no other (model.mjs:119-199): no ring is drawn twice
\* and nothing is carried on.
FinalScoreKept ==
  ring = LastRing =>
    \A draws \in PossibleDraws(ring) :
      LET shown == Shown(draws) IN
      /\ {shown.expected, shown.p10, shown.p50, shown.p90} = {score}
      /\ shown.tier = RewardTier(level, score)
      /\ \A t \in Tiers : shown.hits[t] = IF t = shown.tier THEN Runs ELSE 0

\* A simulated range is ordered, and lies where the score of every remaining
\* ring is one that somebody met (model.mjs:167-191).
RangePlausible ==
  \A draws \in PossibleDraws(ring) :
    LET shown == Shown(draws)
        met   == {row.score : row \in model.taskBuckets}
        left  == LastRing - ring
    IN
    shown.method = "simulation" /\ left > 0 =>
      /\ shown.p10 <= shown.p50 /\ shown.p50 <= shown.p90
      /\ {shown.p10, shown.p90, shown.expected}
           \subseteq (score + left * Min(met))..(score + left * Max(met))

\* The server files a ring under its bucket by its number, the page looks for
\* the buckets of the rings that remain: it simulates only when every one of
\* them has enough samples (sqlite.go:189, model.mjs:149-155), even with a
\* model whose query broke off.
SimulationSupported ==
  Simulates(ring, model.taskBuckets) =>
    \A n \in (ring + 1)..LastRing :
      SampleCount({row \in model.taskBuckets : row.bucket = TaskBucket(n)})
        >= MinBucketSamples

\* Every simulated run counts for one tier at most: the probabilities shown
\* are of the runs that reach the lowest tier (model.mjs:178-186).
TiersExclusive ==
  \A draws \in PossibleDraws(ring) :
    LET shown == Shown(draws) IN
    shown.method = "simulation" =>
      MapThenSumSet(LAMBDA t : shown.hits[t], Tiers)
        = Cardinality({run \in 1..Runs : score + draws[run] >= RewardThreshold(level, 90)})

\* Of two ways to end the ring the one with the higher score is never shown
\* with the lower total, whatever the generator draws (app.mjs:275-283).
BetterOptionNeverWorse ==
  loading = "over" =>
  \A task \in Compared : \A a, b \in Options(task) :
    a # b /\ OptionScore(task, a) <= OptionScore(task, b) =>
      \A first \in PossibleDraws(RingAfter(ring)) : \A draws \in OptionDraws(first) :
        OptionShown(task, a, first).expected <= OptionShown(task, b, draws).expected

\* Rewards that players of the same level had for a score in the ten of the
\* expected one are those the estimate rests on: server and page agree on
\* bands and, from ten points on, on buckets (sqlite.go:210, api.go:238-249,
\* model.mjs:245-249).
RewardsComparable ==
  model # EmptyModel /\ ~cut =>
    \A draws \in PossibleDraws(ring) :
      LET shown == Shown(draws) IN
      shown.method # "insufficient" /\ shown.expected >= 10 =>
        \A cell \in RewardCells :
          /\ rewards[cell] > 0
          /\ cell[1] = level
          /\ cell[2] \div 10 = shown.expected \div 10
          => RewardCandidates(model.rewardBuckets, level, shown.expected) = {RewardGroup(cell)}
=============================================================================
