# Verification of 宠环助手 (pet-ring)

TLA+ models of the pet-ring simulator, TLC runs that check them on small
instances, and TLAPS proofs for every size. The models are translated from the
code: `src/web/*.mjs` (the page), `src/internal/**` (the Go server) and
`src/deploy/deploy-pet-ring.sh` (how a new version gets there). Where a document
and the code disagree, the model follows the code and a run shows the
disagreement.

- [1 The system](#1-the-system)
- [2 The modules](#2-the-modules)
- [3 The runs](#3-the-runs)
- [4 Fairness](#4-fairness)
- [5 The proofs](#5-the-proofs)
- [6 Where the code departs from its documents](#6-where-the-code-departs-from-its-documents)
- [7 What is not modelled](#7-what-is-not-modelled)
- [8 Plan](#8-plan)

Check a run with `tlc -config one_tab.cfg MCEventSync`, a proof with
`tlapm EventSyncProofs.tla`.

## 1 The system

A player runs cycles of 100 rings. Every ring is a task, ended in one of a few
ways (its *resolution*), which gives a score; the final score decides the
reward. The page keeps cycle, history and prices in `localStorage`. With the
player's consent every ring and every reward is also sent, anonymously, to a
server that publishes aggregated statistics.

| component | source | state | operations |
|---|---|---|---|
| local repository | `web/storage.mjs` | one JSON value in `localStorage`: consent, current cycle, history, outbox `pendingEvents` | each a load, change, save in one turn |
| page handlers | `web/app.mjs` | module variables `state`, `selectedTask`, `selectedResolution`; the input fields | record, undo, delete, reset, complete, set up, consent, delete history, save prices |
| event synchronisation | `web/app.mjs:474-487` | the activations of `flushPendingEvents`, each with its copy of the outbox | start, send, await, remove or keep |
| event server | `internal/httpapi/api.go`, `internal/store/sqlite.go` | tables `task_events`, `reward_events` | insert a task, delete tasks, insert a reward, aggregate |
| public model | `internal/store/sqlite.go:186-244`, `web/app.mjs:462-472` | none on the server; `publicModel` in the page | aggregate, load |
| rate limiter | `internal/httpapi/ratelimit.go` | per device and address, the start of its window and a count | `allow` |
| scoring | `web/model.mjs`, `internal/domain/rules.go` | none | score a task, score a resolution |
| tiers and projection | `web/model.mjs`, `internal/domain/rules.go` | none | threshold, tier, projection, comparison of options |
| records of earlier versions | `web/storage.mjs:137-192` | old entries, samples and prices in `localStorage` | normalised at every load |
| migration | `internal/store/sqlite.go:41-133` | the tables' columns and old rows | at every start |
| process | `cmd/pet-ring/main.go` | listener, database handle | start, signal, shutdown |
| deployment | `deploy/deploy-pet-ring.sh` | revision, images, container, lock | fetch, merge, build, replace, check, roll back |

How they interact. Every handler changes `localStorage` through the repository,
loads `state` again, renders, and (when it queued something) calls
`flushPendingEvents` without awaiting it. The function copies the outbox, sends
its events one after the other, and removes an event when the answer is 2xx,
409 or any 4xx but 429. So any number of activations run at once, in one page
or in several on the same storage, and each goes on with a copy that may be
old. The server computes the score of a sample on its own, inserts it under
its id (a second insert is 409), and deletes by ids. A reverse proxy stands
between the two and may answer 502 or 504 whether or not the server acted.
A page fetches the public model once, when it is opened, and predicts from it
what the cycle will earn. The server process migrates its database at every
start; Docker starts it again when it ends, and the deployment script replaces
it, or brings an earlier one back onto the migrated database.

What is hard about it, and the property that makes each part correct:

- *synchronisation*: requests overlap, overtake one another, get lost, are sent
  twice, and consent and entries change meanwhile. No sample may be lost; a
  ring taken back must not stay on the server; nothing may be sent without
  consent; a queue with an event that cannot be delivered must not block.
- *several tabs*: a handler decides on its own tab's `state` and changes the
  shared storage.
- *cycle*: rings stay within the cycle and in order, only full cycles are
  completed, the history is bounded.
- *form*: selection and quality fields outlive the score and the task they were
  chosen for.
- *scoring*: is written twice, in two languages with different division.
- *limiter*: a fixed window lets bursts through at its boundary; how large, and
  whether a refusal is ever unjustified.
- *writes that fail*: a handler writes `localStorage` up to twice, and a write
  may throw. What is left must agree: the outbox with the rings, the reward
  with the cycle, and the stored cycle with its length although the page goes
  on with an older `state`.
- *public model and projection*: the server files rings and rewards into
  groups, the page computes for itself which groups it needs; the formulas are
  written twice. The page must simulate only where there are samples, keep a
  score that is final, and not show the better option as the worse.
- *migration*: runs at every start and may be cut off anywhere, over rows and
  samples of two versions of server and page. A row must say of its ring what
  the page says, and stay so.
- *deployment*: every command may fail, a run may be killed or overlap another.
  Reported success must be true; a failed run must put back code, image and
  container as far as its own commands still work; what is rolled back to must
  have worked.

The hazards with their lines are in `PROJECT.json`.

## 2 The modules

| module | models | extends |
|---|---|---|
| `Events` | the requests in the outbox and on the wire, and their order | |
| `Repository` | each repository operation, a function on the stored state | `Events` |
| `EventServer` | the three event handlers with the statement they run | `Events` |
| `EventSync` | page handlers, `flushPendingEvents`, the network; composes the three above | `EventServer`, instance of `Repository` |
| `MCEventSync` | inputs and symmetry for TLC | `EventSync` |
| `SampleLifecycle` | abstract: what may become of a sample | |
| `EventSyncProofs`, `LifecycleProofs` | invariants of `EventSync`; that it implements `SampleLifecycle` | `EventSync` |
| `OneTabProofs` | what `EventSync` guarantees with a single tab | `LifecycleProofs` |
| `BrokenTurns`, `MCBrokenTurns`, `BrokenTurnsProofs` | handlers whose writes may throw; the instance; the proofs | `Events`, instance of `Repository` |
| `RateLimiter`, `MCRateLimiter`, `RateLimiterProofs` | `allow` and the restart; its instance; its proofs | |
| `TaskRules` | both scorings, as operators | |
| `EntryForm`, `MCEntryForm`, `EntryFormProofs` | the form and the score it depends on; its instance; its proofs | `TaskRules` |
| `RewardRules` | thresholds, tiers, bands and buckets, of server and page | `TaskRules` |
| `Projection` | `simulateProjection` and its helpers, as operators | `RewardRules` |
| `Prediction`, `MCPrediction`, `PredictionProofs` | the tables, `AggregateModel`, loading the model, the page that predicts; the instance; the proofs | `Projection` |
| `Records` | normalisation of old entries, samples and prices, as operators | `TaskRules` |
| `Migration` | server process, `initialize`, and a player across versions | `Records` |
| `Deployment`, `MCDeployment`, `DeploymentProofs` | the script around the process of `Migration`; the instance; the proofs | `Migration` |

### EventSync

An action of a tab is one JavaScript turn, so a handler is atomic up to its
end, and `flushPendingEvents` runs from one `await` to the next.

| variable | code |
|---|---|
| `storage` | the JSON under `pet-ring:v1`; the same for all tabs |
| `view[t]` | the fields of `state` in tab `t` that are read after the turn that loaded them |
| `open`, `online` | the open pages; `navigator.onLine` |
| `flush[f]` | an activation of `flushPendingEvents`: its tab, the event it awaits, the rest of its copy |
| `wire[f]` | what is on the network for it: a request on its way, an answer on its way, or nothing |
| `tasks`, `rewards` | the two tables |
| `sampled`, `retracted`, `refused`, `overtaken` | history variables: samples queued, rings taken back, samples answered 400, ids deleted while a POST of theirs was still to come |

Handlers: `OpenTab` (`initialize`), `ChooseConsent`, `AddEntry`,
`UndoLastEntry`, `DeleteEntry`, `ResetCycle`, `CompleteCycle`,
`UpdateCycleSetup`, `DeleteHistory`, and `Refresh` for those that change only
prices or show the public model. `AddEntry` tests the ring count in `view` and
appends to `storage`; `ResetCycle` takes the ids to delete from `view` and
clears `storage`: the code does both, and in one tab they are the same.

Flush: `FlushPendingEvents` is the call at the end of a handler, `Loop` the
loop from its head to the next `fetch`, `Receive` the code after the `await`,
`FetchFails` the `catch`. A fetch may fail although its request is still under
way (`Abandon`), and so may a page be closed (`CloseTab`).

Network and server: `Deliver` runs a handler of `EventServer` and puts the
answer on the way; `Lose` drops a request or an answer; `GatewayFails` answers
5xx before or after the server acted (before: the request is gone; after: the
answer is replaced). A handler runs one SQL statement on the only connection,
so it is one step. It may always answer 429 or 5xx instead.

Abstractions. Ids are drawn in increasing order and the arrays of entries and
events are sets of records with ids: the code only appends fresh ids and
filters, so the array is the set in the order of its ids. A ring's result is
its resolution, its score and whether its qualities are whole numbers; of a
reward's score only whether the server takes it. All requests have one device,
whose hash matches. The player level is always valid (the page clamps it).
`completeCycle`'s history entry keeps the entries; totals and dates carry no
control.

### SampleLifecycle

The abstract specification of the synchronisation: per identifier one `phase`,
*unsampled, queued, held, stored, refused, withdrawn*, and the moves between
them. `EventSync` instantiates it: `Phase` computes the phase of an id
from the outbox, the server's table and the history variables, and
`ImplementsLifecycle` is the abstract specification under this mapping.
Duplicate POSTs, retries, 409 answers, overlapping activations and faults are
stutters; handing a sample over is two moves (`Store`, `Acknowledge`), because
the server has it before the browser knows. A deletion that a POST overtakes
puts the row back but not the sample: it stays *withdrawn*. That the row should
be gone too is `TakenBackIsDeleted`, which fails (section 6).

### BrokenTurns

The handlers of `EventSync` again, each now a list of the stored states it
writes (`AddEntryWrites`, `TakeBackWrites`, `CompleteCycleWrites`). A turn does
the first `k` of them and breaks off (`setItem` throws when the quota is
reached); `view`, the module variable `state`, is loaded only where the handler
gets to its `load`. The next handler then decides on a `state` that is older
than `storage`. A page killed between two writes and opened again is a broken
turn followed by `Open`. One tab; the network is only `Sent`, the final answer
that removes an event. `recorded`, `removed`, `shared`, `reported` are history.

### RateLimiter

`clock` moves on its own, `items[k]` is the map's entry (the zero value for an
absent one); `admitted` and `refused` record the answers of this process. A
call is `OpenWindow`, `CountIn` or `Refuse`; `Restart` empties the map.

### TaskRules and EntryForm

`TaskRules` has the page's and the server's rules side by side, with their
tables written out from each source. A scoring that may throw yields a set,
empty when it throws. Qualities are counted in halves, so that the page's
`Math.floor` on any number and Go's truncating division on integers are
different operators (`\div 4` and `Quotient`), and so that the server's refusal
of fractions (`Decodes`) is there. `EntryForm` is the state that survives a
render: selection, quality fields, initial score, entries. Every action ends
with `renderResolutionOptions`, as every handler does.

### RewardRules, Projection and Prediction

`RewardRules` has the rules that are written twice as pairs of operators:
`PlayerLevelBand` and `NearestLevelBand`, `ServerScoreBucket` (SQLite's
division, towards zero) and `PageScoreBucket` (`Math.floor`). `Projection` is
`simulateProjection` as a function of ring, score, level, task rows and draws.
The random draws are an argument: a property that holds for every choice holds
for every seed and generator. `Gains` is the set of totals the draws can give.

| variable of `Prediction` | code |
|---|---|
| `tasks`, `rewards` | the two tables, as the number of rows of each kind |
| `loading`, `buckets` | how far the one request for the model is, and what the first query read |
| `model` | `publicModel` |
| `ring`, `score`, `level` | the page's totals and `playerLevel` |
| `cut` | history: a query broke off |

`QueryTasks` and `QueryRewards` are the two queries the page uses, outside of
any transaction, so that `PostTask`, `DeleteTask` and `PostReward` of other
players come between. Each may read any part of its rows: the loops do not ask
`rows.Err`. `ModelUnavailable` is a failed fetch. `AddEntry` and
`UpdateCycleSetup` are the page's totals moving on. What is shown is computed
in the properties, since it is a function of the state and the draws.

### Records and Migration

`Records` translates `normalizeEntry`, `normalizePendingEvent`,
`normalizeTaskPrices` and the statistics' own normalisation. `Migration` takes
`initialize` apart into its statements: `CreateTable`, `EnsureTaskEventColumn`
for each of the two columns, `UpdateTaskEvents`, `MergeTaskTypes`; `phase` says
which comes next, and `Crash` may come before any. The statements look at every
row by itself, so the row of one ring stands for all of them. `RecordEarlier`,
`Record`, `ReloadPage`, `Mutate` and `Post` are the player who reports the
ring: with the earlier page or the present one, to the server that is up, in
the form the outbox has it, with the answer lost or not. The earlier versions
are not in the repository; they are external, and modelled by the rows and
records the migration, the normalisation and their tests expect.

### Deployment

`line[s]` is the command run `s` of the script is at: `Begin` (lock and old
revision), `Fetch`, `Tag`, `Merge`, `Config`, `Build`, `Up`, `Health`, and in a
rollback `RollbackCode`, `FindImage`, `RestoreImage`, `UpAgain`. Each command may
fail, and each action says what the script makes of it: `set -e`, an `if`, or
`|| true`. So a failing `docker image inspect` is an image that is not there
(lines 80 and 48), a failing reset ends a run that gives up (lines 87 and 93) but
not a rollback (line 46), and a failing `docker compose up` leaves the old
container, none, or a new one that does not run.
`lock`, `old` and `new` are the lock file, `OLD_REVISION` and `new_revision`.
`head` is the checkout; `image` and `rollback` are the two tags and `container`
the image the container came from, each given by the version it was built of.
`Killed` ends a run at any line. `Up` launches the process of `Migration`;
`Restart` is `restart: unless-stopped`. A broken version is one whose process
never takes the last step of its start; no action has to be taken, so each
version may be one.

Two variables are history: `served`, the images that have served, and `lost`,
what the runs since the last success may have failed to put back, part by part.
The code is lost by a reset that fails and by a run killed after the merge; the
image by an inspect that fails or a rollback that has no image, by a tag that
fails in a rollback, and by a run killed after the build; the container by a
replacement that fails in a rollback, and by a run killed after the build. A
success, which brings all three to one version, clears it.

## 3 The runs

Passing:

| run | asks | properties | bounds | states |
|---|---|---|---|---|
| `one_tab` | one page, overlapping flushes, every fault | `NoSampleLost`, `OrphansOnlyOvertaken`, `DeletionsAcceptable`, `SamplesSentWithConsent`, `ImplementsLifecycle` | 2 activations, cycle of 2, 4 ids | 527,506 |
| `ring_results` | rings of every kind, edited setup | `TypeOK`, `RingsWithinCycle`, `NoSampleLost`, `RingsStayInOrder`, `OnlyFullCyclesComplete` | 1 activation, cycle of 3, 3 ids, 4 results, initial rings typed as -1 and 7 | 437,578 |
| `live` | does everything leave the outbox | `DeletionsLeave`, `SamplesLeave` | 1 activation, 3 ids, a sample no server stores | 8,252 |
| `limiter` | all placements of calls in time | `TypeOK`, `BurstBound`, `RefusedOnlyWhenFull` | 2 keys, limit 2, window 2, 6 time units | 805,298 |
| `entry_form` | the form in every order | `TypeOK`, `SelectionAvailable`, `ScoresAgree` | cycle of 3, 3 tasks, 6 pairs of qualities, 3 initial scores | 243,554 |
| `broken_turns` | any write of any handler throws | `TypeOK`, `OutboxRecorded`, `DeletionsFinal`, `CyclesReported`, `RingsWithinCycle`, `HistoryBounded` | cycle of 3, history of 1, 8 ids, initial rings 0 and 2 | 1,449,276 |
| `prediction` | from samples of others to the page's prediction | `TypeOK`, `FinalScoreKept`, `RangePlausible`, `SimulationSupported`, `TiersExclusive`, `BetterOptionNeverWorse`, `RewardsComparable` | cycle of 3, buckets of 2, 2 rows, 2 runs, 2 levels | 146,116 |
| `release` | a release over an older server on one database, by two runs whose commands fail and which are killed | `TypeOK`, `RowsTranslated`, `ColumnsComplete`, `IdleConsistent`, `RollbackImageServed`, `SettledRowsKept`, `SuccessMeansDeployed` | 2 runs, 2 versions, 7 reports | 1,900,391 |

Why the bounds are enough to be interesting. Overtaking takes one activation
that posts and one that deletes: two activations. A batch deletion takes two
entries. Two ids are used by a ring and its deletion, so four ids allow two
rings taken back, or a ring taken back and a reward with its cycle; a cycle of
two reaches its end, and with an initial ring of one in `ring_results` the end
is reached early. Skipping needs 20 points, given by the initial score. In
`limiter` a burst of twice the limit over a boundary is reached (the bound is
tight), and six units hold three windows. The quality pairs of `entry_form`
are an odd gap, a half, a full and a fractional one, a gap that leaves the
table's range, none, and a negative quality.

In `broken_turns` eight ids allow three rings, a reset or deletions and a
completed cycle with its reward in one behaviour; with an initial ring of 2 a
single ring completes a cycle, so that the second completed cycle meets a
history of one. In `prediction` rings 1 and 2 are in the first bucket and ring
3 in the second, so a page at ring 2 stands in one bucket and needs the other;
two rows are enough for both the sample threshold (2) and the
empty bucket; level 79 lies exactly between two bands; a final score of -5 is
where the two divisions differ; the initial score 155 puts the lowest tier of
level 175 one ring away. The code's sizes (100 rings, 3000 runs) are constants
of the same formulas. In `release` the first version is an earlier server and
the second the present one, and either may fail to start or be found healthy
too late, so there are deployments of both, a rollback across the migration and
one that fails, and, when the second version is deployed again, a rollback tag
left from the first. Two runs are what a lock has to keep apart; the seven
reports are the old names of every kind and the qualities whose requested score
is missing, zero and negative.

The run asks two things. Of the database: a start cut off anywhere is made good
by the next (`RowsTranslated`, `ColumnsComplete`, `SettledRowsKept`). Of the host:
a run that reports success has deployed (`SuccessMeansDeployed`), and one that
fails goes back (`IdleConsistent`, `RollbackImageServed`). The last two speak of
the parts that are not `lost`. No part of that condition can be left out: for
each one TLC finds, without a killed run, a behaviour of the same instance in
which the rest fails, for instance a reset that fails in line 87 for the code.

What depends on larger sizes is proved (section 5).

Symmetry is used for the activations and for the runs of the script, which the
specifications only compare, and for the limiter's keys; never with liveness.

Two tabs are in the violating runs, whose properties need one tab. That no
sample is lost with any number of tabs is the theorem `NoLoss`.

Deadlock is checked everywhere: a page can always be opened or closed, an idle
script begun, a cycle set up again.

Violations, each a run of its own: section 6.

## 4 Fairness

`NetworkFairSpec` is what the runtime and the network give: a turn that can go
on goes on (`Receive`); a fetch with nothing under way fails at last
(`FetchFails`); a lost connection comes back (`GoOnline`); what was given up
does not stay on the network for ever; and, strongly, a request sent again and
again is at some time handled without a fault and an answer to it at some time
heard. Strong fairness is needed because the network may lose a request
between any two attempts, and it is as much as an unreliable network justifies:
it fails arbitrarily often, not always. A 429 is such a fault since the limiter
opens again with its next window (`RefusedOnlyWhenFull`). For a row the table's
CHECK rejects, 500 is the faultless answer.

Nothing in the code sends the outbox on its own, so without a user there is no
progress (run `offline_delete`). `FairSpec` therefore adds a user who comes
back: the page is opened, while online, again and again, and closed when
nothing is under way in it. No fairness is assumed for any other handler.

## 5 The proofs

Every theorem holds for all values of the constants that the named assumptions
allow: any set of tabs, activations, keys or runs, any length of the cycle, any
inputs of the right type.

**`EventSyncProofs`**: `Typed` (`Spec => []TypeOK`) and `NoLoss`
(`Spec => []NoSampleLost`). `NoSampleLost` is not inductive: when an answer
removes an event from the outbox, something must guarantee that the sample is
on the server. `IInv` adds

- `AnswersTrue`: an answer on the wire that would settle a sample is true: the
  row is stored, or the server refused the sample, or the ring has been taken
  back since (the only case in which a row is deleted);
- `RequestsSound`: every request in the outbox, in an activation's copy and on
  the wire was drawn before now (so fresh ids never collide with it), and a
  deletion is no sample and names only rings taken back. The last part is why
  removing rows never removes a sample that still counts;
- `SampledBefore`, `EntriesFinite`: ids are fresh, and counting entries makes
  sense.

`NextIInv` has one lemma per group of actions: the quiet ones (nothing but
view, open or online changes), those that queue, those that take back, the
network's, and `Deliver`, the one that changes tables. Flushes are handled once,
in `LoopTyped`, `FlushTyped` and `TurnKeepsIInv`: a handler's turn may start an
activation with a copy of the outbox, and what is in the copy was sound in the
outbox.

**`LifecycleProofs`**: `Implements` (`Spec => ImplementsLifecycle`). The
mapping is a step simulation once three more facts are invariant (`RInv`, with
`IInv`): `OneRequestPerId`, so that an answer removes the event it is for;
`StoredAccepted`, what is on the server was acceptable, so a 409 is never about
a sample that is also refused; `AnsweredBefore`, what is stored or refused was
drawn before now, so that a fresh id is *queued* and nothing else. `StepKinds` sorts the
steps into turns, faults, receipts and deliveries, and `TurnMoves`,
`FaultMoves`, `ReceiveMoves`, `DeliverMoves` give the abstract move or stutter
of each.

**`OneTabProofs`**: `WithinCycle`, `InOrder`, `FullCycles`, `Acceptable`,
`Orphans`, `SentWithConsent`. They assume `OneTab` (any two tabs are the same
one), without which most of them fail, and then hold for any number of
activations, rings, cycles and faults. `Acceptable` and `Orphans` also assume
`CycleFitsBatch`, `LastRing <= DeleteBatchLimit`: the code has 100 for both
(`app.mjs:349`, `api.go:144`). The invariant `CInv` starts from `Fresh`: the
only tab's `state` is what is stored, since every handler ends with a load and
nobody else writes. So a guard on `view` is a guard on `storage`, which gives
`RingsWithinCycle`; the rest of `CInv` (`EntriesOwn`, `RetractedBefore`,
`SamplesDropped`, `DeletionsFit`) says that ids of rings are their own and that
a ring taken back has no sample in the outbox. `OrphansOnlyOvertaken` needs
`DInv` on top: a ring that was taken back has its deletion in the outbox until it
is finished with (`DeletionsPending`), and an answer that removes a deletion from
the outbox is given only then (`DeletionsAnswered`), where *finished* (`Finished`)
means that neither a row of it nor a request that would bring one is left, or
that the deletion overtook such a request. `DInv` is where `CycleFitsBatch` is
needed: a deletion that the server refuses as too large
would leave the outbox with the rows still there. `InOrder` is an action
property; `RenumberedInOrder` is the lemma that numbering again after a deletion
keeps the rings, their ids and their order.

**`PredictionProofs`**: all properties of `Prediction`, for every length of the
cycle, bucket size, number of runs, and sets of scores, levels and inputs.
The invariant `PInv` is about the data: the tables hold finitely many rows
(`FinitelyMany`, so that a least and a greatest score exist although the set of
possible scores may be infinite), a page that has a model does not ask again
(`AnsweredOnce`), and its model has the group of every reward in the table
unless a query broke off (`AnsweredWhole`). What is shown is computed, so the
theorems rest on lemmas about the operators:

- sums: `SumStep` unfolds a fold over a finite set by one member; from it
  `SumBounds`, `SumCounts`, `SumMonotone` and `SumOfClasses`. The induction is
  over a *set* of subsets (`ChosenInduction`, from `NatBySets`, from the
  well-foundedness of the naturals), so it needs no induction theorem with an
  operator for a parameter;
- gains: `GainsOfTable` gives the recursive function of `Gains` its existence,
  `GainsAtEnds` and `GainsBounds` its values;
- order: `RankedFacts` says that the value of a rank exists, `RankedMonotone`
  that ranks are ordered, `PercentileRank` that the rounded ranks are ranks;
- division: `RoundedBounds`, `RoundedMonotone`, `DivMonotone`, with a divisor
  that is a variable;
- rules: `TierReached`, `TierMonotone`, `BandKnown`, `TaskBucketKnown`.

`BetterOption` is then that mean, average and rounding are monotone in the
score; `Supported` that the ring number finds the same bucket on both sides;
`Comparable` that the two divisions agree from ten points on.

**`BrokenTurnsProofs`**: `Typed`, `OutboxStaysRecorded`, `DeletionsStayFinal`,
`CyclesStayReported`, `RingsStayWithinCycle`, `HistoryStaysBounded`. The handlers
guard `storage` with `view`, so the invariant has to relate the two after any
broken turn. `Sound` is about `storage` alone: identifiers are distinct and
older than the next, cycle and history are disjoint and within their limits, a
deletion names nothing shown. `Behind` ties the page to it: `view` has every
stored ring and perhaps some that are gone, and an initial ring that is not
lower. It is what keeps the guards safe: a page that is behind counts too many
rings, never too few. `FewerRings` and `NewestBounded` are the counting, by
injections.

**`RateLimiterProofs`**: `Typed`, `RefusalsJustified`, `BurstBounded`. `IInv`
says that the calls of a window are numbered without a gap up to the count,
and that two windows of one key start a window's length apart. So a stretch of
time as long as a window meets at most two windows, each with at most `Limit`
numbers; the cardinality of the union gives the bound.

**`EntryFormProofs`**: `FormTyped`, `SelectionStaysAvailable`, `ServerAgrees`.
`SamePenalty` is the arithmetic: on whole qualities with a gap, rounding the
page's quotient down and cutting Go's off are the same number. `SameScores`
lifts it to all tasks and resolutions; it needs that qualities are given only
where the form asks for them, which `AddEntry` ensures. `SelectionAvailable`
follows because every action ends with a render.

**`DeploymentProofs`**: `Typed`, `RowsStayTranslated`, `ColumnsStayComplete`,
`SettledRowsStayKept`, `IdleStaysConsistent`, `RollbackToServed`, `SuccessIsTrue`,
and of the operators `NormalizeEntryIdempotent` and
`NormalizeTaskPricesIdempotent`. The invariant has two halves. `MInv` is about
the database: at most one report, record and sample fit it, the columns grow in
their order, and the row is in one of three forms, as an earlier server wrote
it, half migrated, or final, each of them only in the phases where it can be;
a start that is cut off and repeated leads each form to the next and leaves
the final one alone. `SInv` is about the script: a run past `Begin` holds the
lock alone (`Locked`), what it has done is known at each of its lines
(`Stands`), and what it can go back to (`CanUndo`): as long as the image is not
lost, the rollback tag holds an image that has served, that of the old revision
if the code is not lost either, or nothing, when nothing was ever built. Each
clause names the parts it needs, so that a step that loses a part has only the
other clauses to keep. `Steady` is the state between runs that the next one
starts from, and after a success it holds with nothing lost, whatever was before.

The assumptions are those on the constants: `LastRingAssumption`,
`DeleteBatchAssumption`, `SyncAssumption`, `LimiterAssumption`,
`FormAssumption`, `ProjectionAssumption`, `PredictionAssumption`,
`BrokenTurnsAssumption`, `MigrationAssumption` and `DeploymentAssumption`,
evaluated by TLC in the runs, and the two hypotheses of `OneTabProofs` named
above, which stand in its theorems.

Only model-checked: `DeletionsLeave` and `SamplesLeave`, the two liveness
properties (fairness and ENABLED are out of the prover's reach), and the four
violations of section 6, which are about single behaviours. Every invariant and
every action property of a passing run, and the refinement, is also a theorem.
The inductive invariants were checked by TLC on the constants of the runs before
they were proved.

## 6 Where the code departs from its documents

| run | what TLC shows |
|---|---|
| `overtaken_delete` | a POST of one flush is delivered after the DELETE of another: the ring is stored again and stays |
| `two_tabs_consent` | consent withdrawn in one tab; the other's flush goes on sending samples |
| `offline_delete` | a deletion queued offline is not sent when the network is back; the open page waits for another action of the user |
| `poor_quality` | a large quality gap gives a score below -100; the table refuses it, the server answers 500 at every attempt and the sample stays in the outbox |

The quoted sentences are under `findings` in `PROJECT.json`. `offline_delete`
uses `NetworkFairSpec`: the network and the runtime are fair, only the user
does nothing.

Two tabs depart further from what one tab guarantees, without a document that
speaks of it: they record more rings than the cycle has, because each counts in
its own `state`, and a reset in a tab that has not seen the latest ring clears
it without deleting its row. `RingsWithinCycle` and `OrphansOnlyOvertaken` are
therefore checked with one tab.

The deployment script departs from its own first comment, which says that it
keeps the last image that could run for a rollback (`deploy-pet-ring.sh:6`). A
first deployment whose container does not start or is not healthy has no image
to go back to and leaves its own (lines 48-51); the next run tags that one (line
81), though it never served, and rolls back to it if it fails too. Nobody has to
be killed for it. No run is kept for this behaviour: TLC finds it on the instance of
`release` when `Killed` and the condition of `RollbackImageServed` are left out.

## 7 What is not modelled

Left out as components:

- page layout, theme, price inputs and the display of statistics: no state
  another part depends on (what a record counts for in the statistics, and the
  normalisation of old prices, are in `Records`);
- the projection of the Go server (`internal/domain/prediction.go`): nothing in
  the repository calls it but its own test;
- the choice of a static file (`newHandler`): it keeps no state;
- the contents of CSS, HTML, Docker, Compose and Caddy files, and the GitHub
  workflow, which only triggers the deployment script. What they do to the
  modelled parts is there: the restart policy and the proxy's 5xx.

Abstractions inside the models:

- several devices: the server separates them by their hash, a key of every row
  it deletes; the limiter has several keys;
- the entry's cost, dates and the totals of a completed cycle carry no control;
- earlier versions of server and page are external (section 2). What an earlier
  server answers a present page is not known; such a sample is not sent in the
  model, so nothing is shown for it;
- an orderly shutdown is a crash: after ten seconds the database is closed
  under the handlers that still run, and a handler that is cut off leaves a
  statement that was done or not and an answer that was heard or not, the lost
  and late answers of `EventSync`;
- `Deployment`: origin only moves forward (no force push), the checkout is never
  dirty, the lock ends with its run (no child inherits it), the build takes what
  is checked out, and a command that fails has done nothing, but for `docker
  compose up`;
- a killed run, or a command that fails while it keeps or puts something back,
  can leave checkout, image and container apart, and an image that never served
  under the rollback tag, until the next success: `IdleConsistent` and
  `RollbackImageServed` exclude it part by part (`lost`, section 2), because the
  code does not prevent it;
- `BrokenTurns` after a reset that breaks off: the page still shows a full cycle
  and may complete the empty one; rings recorded from the older `state` may be
  numbered with a gap. `OnlyFullCyclesComplete` and `RingsStayInOrder` are stated
  of turns that come to their end;
- the limiter's map never shrinks; no bound exists that a property could state.

## 8 Plan

Done: `Events`, `Repository`, `EventServer`, `EventSync`, its proofs for any
number of tabs and for one; `RateLimiter`, its proofs; `TaskRules`, `EntryForm`,
their proofs; `SampleLifecycle`, its refinement checked and proved; `RewardRules`,
`Projection`, `Prediction`, their proofs; `BrokenTurns`, its proofs; `Records`,
`Migration`, `Deployment`, their proofs.

Next:

1. What two tabs still guarantee about deletions: that a deletion in the outbox
   stays there until it is answered holds for any number of tabs, and could be
   stated without `OneTab`.
2. The database of `Migration` as an abstract specification (a row is earlier or
   final, and becomes final once), with `Deployment` shown to implement it.
3. Lemmas that tie the average projection to the simulated one at the ring
   where the page changes from one to the other.
