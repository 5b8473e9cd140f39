-------------------------- MODULE DeploymentProofs --------------------------
(***************************************************************************)
(* For every set of script runs, every number of versions and every way a  *)
(* ring may have ended: what a run reports is true, what it leaves behind  *)
(* fits together, and the rows of the database say what they should.       *)
(***************************************************************************)
EXTENDS Deployment, TLAPS

-----------------------------------------------------------------------------
(* Records.                                                                *)

\* Whatever is normalised; of a waiting sample both its fields are given.
AnyRecord ==
  {e \in [requestedTaskType : Tasks \cup MergedTaskTypes \cup {Absent},
          taskType : TaskTypes \cup {Absent}, resolution : Resolutions \cup {Absent}] :
     e.requestedTaskType # Absent \/ e.taskType # Absent}

\* The names of tasks, of what has become of old ones, and of no task differ.
LEMMA NamesApart ==
  /\ Absent \notin TaskTypes /\ Absent \notin Resolutions
  /\ Tasks \cap (MergedTaskTypes \cup EndedMutants) = {}
  /\ MergedTaskTypes \cap EndedMutants = {}
  /\ {"flower_instrument", "mutant_specific"} \subseteq Tasks
  /\ {"fulfilled", "mutant_unspecified", "normal_pet"} \subseteq Resolutions
PROOF
BY DEF Absent, Tasks, TaskTypes, MergedTaskTypes, EndedMutants, Resolutions

LEMMA EntriesNormalizable == EntryRecord \subseteq AnyRecord
PROOF
BY NamesApart DEF EntryRecord, AnyRecord, TaskTypes

\* A record in the present form is left as it is.
LEMMA PresentFormKept ==
  ASSUME NEW e \in AnyRecord, e.requestedTaskType \in Tasks, e.resolution \in Resolutions
  PROVE  NormalizeEntry(e) = e /\ CountedAs(e) = e.requestedTaskType
PROOF
<1>1. e.requestedTaskType # Absent /\ e.resolution # Absent
  BY NamesApart DEF TaskTypes
<1>2. e.requestedTaskType \notin MergedTaskTypes \cup EndedMutants
  BY NamesApart
<1> QED BY <1>1, <1>2 DEF AnyRecord, NormalizeEntry, NormalizeTaskType, CountedAs, Or

\* NormalizeEntry brings every record into the present form, and what it
\* yields is the task the statistics count the ring for (model.mjs:267-277).
LEMMA EntryNormalized ==
  ASSUME NEW e \in AnyRecord
  PROVE  LET n == NormalizeEntry(e) IN
         /\ n \in AnyRecord
         /\ n.requestedTaskType \in Tasks /\ n.resolution \in Resolutions
         /\ CountedAs(e) = n.requestedTaskType
PROOF
<1> DEFINE n == NormalizeEntry(e)
           named == Or(e.requestedTaskType, e.taskType)
<1>1. e.requestedTaskType # Absent => e.requestedTaskType \in Tasks \cup MergedTaskTypes
  BY DEF AnyRecord
<1>2. named \in TaskTypes
  BY <1>1 DEF AnyRecord, Or, TaskTypes
<1>3. CASE e.requestedTaskType = Absent /\ e.taskType \in EndedMutants
  <2> DEFINE ending == IF e.taskType = "mutant_unspecified" THEN "mutant_unspecified"
                       ELSE "normal_pet"
  <2>1. n = [e EXCEPT !.requestedTaskType = "mutant_specific", !.resolution = ending]
    BY <1>3 DEF NormalizeEntry, EndedMutants
  <2>2. n.resolution \in {"mutant_unspecified", "normal_pet"}
    BY <2>1 DEF AnyRecord
  <2>3. CountedAs(e) = "mutant_specific"
    BY <1>3, NamesApart DEF CountedAs, Or
  <2> HIDE DEF n
  <2>4. n.requestedTaskType = "mutant_specific" /\ n \in AnyRecord
    BY <2>1, <2>2, NamesApart DEF AnyRecord, TaskTypes
  <2> QED BY <2>2, <2>3, <2>4, NamesApart DEF n
<1>4. CASE ~(e.requestedTaskType = Absent /\ e.taskType \in EndedMutants)
  <2>1. named \in Tasks \cup MergedTaskTypes
    BY <1>2, <1>4, NamesApart DEF TaskTypes, Or, AnyRecord
  <2>2. NormalizeTaskType(named) \in Tasks
    BY <2>1, NamesApart DEF NormalizeTaskType
  <2>3. Or(e.resolution, "fulfilled") \in Resolutions
    BY NamesApart DEF Or, AnyRecord
  <2>4. n = [e EXCEPT !.requestedTaskType = NormalizeTaskType(named),
                      !.resolution = Or(e.resolution, "fulfilled")]
    BY <1>4 DEF NormalizeEntry
  <2>5. CountedAs(e) = NormalizeTaskType(named)
    BY <2>1, NamesApart DEF CountedAs, NormalizeTaskType
  <2> HIDE DEF n, named
  <2>6. /\ n.requestedTaskType = NormalizeTaskType(named)
        /\ n.resolution = Or(e.resolution, "fulfilled")
        /\ n \in AnyRecord
    BY <2>2, <2>3, <2>4, NamesApart DEF AnyRecord, TaskTypes
  <2> QED BY <2>2, <2>3, <2>5, <2>6 DEF n
<1> QED BY <1>3, <1>4

\* The page normalises the stored records at every load, whatever version
\* wrote them: the second time changes nothing (storage.mjs:157-169).
THEOREM NormalizeEntryIdempotent ==
  \A e \in EntryRecord : NormalizeEntry(NormalizeEntry(e)) = NormalizeEntry(e)
PROOF
BY EntriesNormalizable, EntryNormalized, PresentFormKept

\* The same of the price list, whose old names are gone for good
\* (storage.mjs:184-192).
THEOREM NormalizeTaskPricesIdempotent ==
  ASSUME NEW S, NEW prices, prices = [name \in S |-> prices[name]]
  PROVE  LET n == NormalizeTaskPrices(prices) IN
         /\ DOMAIN n \cap MergedTaskTypes = {}
         /\ NormalizeTaskPrices(n) = n
PROOF
<1> DEFINE n == NormalizeTaskPrices(prices)
<1>1. "flower_instrument" \notin MergedTaskTypes
  BY DEF MergedTaskTypes
<1>2. /\ n = [name \in DOMAIN n |-> n[name]]
      /\ DOMAIN n = (DOMAIN prices \ MergedTaskTypes) \cup {"flower_instrument"}
  BY DEF NormalizeTaskPrices
<1>3. DOMAIN n \cap MergedTaskTypes = {} /\ "flower_instrument" \in DOMAIN n
  BY <1>1, <1>2
<1> HIDE DEF n
<1>4. NormalizeTaskPrices(n) = [name \in DOMAIN n |-> n[name]]
  BY <1>3 DEF NormalizeTaskPrices
<1> QED BY <1>2, <1>3, <1>4 DEF n

-----------------------------------------------------------------------------
(* Scores.                                                                 *)

\* Every report has one requested score and one score.
LEMMA ReportScores ==
  ASSUME NEW r \in Reports
  PROVE  /\ r.task \in Tasks /\ r.resolution \in Resolutions
         /\ RequestedTaskScore(r.task, r.q) # {}
         /\ RequestedTaskScore(r.task, r.q) \subseteq Int
         /\ \A x, y \in RequestedTaskScore(r.task, r.q) : x = y
         /\ ServerScores(r.task, r.resolution, r.q) # {}
         /\ ServerScores(r.task, r.resolution, r.q) \subseteq Int
PROOF
<1>1. /\ r.task \in Tasks /\ r.resolution \in Resolutions
      /\ r.q \in Qualities \cup {NoQualities}
      /\ StoredScores(r.task, r.resolution, r.q) # {}
  BY MigrationAssumption
<1>2. ServerBase[r.task] \in Int
  BY <1>1 DEF Tasks, ServerBase
<1>3. Given(r.q) => Quotient(r.q.required \div 2 - r.q.actual \div 2, 2) \in Int
  <2> SUFFICES ASSUME Given(r.q)
               PROVE  Quotient(r.q.required \div 2 - r.q.actual \div 2, 2) \in Int
    OBVIOUS
  <2> DEFINE n == r.q.required \div 2 - r.q.actual \div 2
  <2>1. n \in Int
    BY <1>1 DEF Given, Qualities, Halves
  <2> HIDE DEF n
  <2>2. Quotient(n, 2) \in Int
    BY <2>1 DEF Quotient
  <2> QED BY <2>2 DEF n
<1>4. /\ ServerScoreTask(r.task, r.q) \subseteq Int
      /\ \A x, y \in ServerScoreTask(r.task, r.q) : x = y
  BY <1>2, <1>3 DEF ServerScoreTask
<1>5. ServerScores(r.task, r.resolution, r.q) \subseteq Int
  BY <1>1, <1>2, <1>4 DEF ServerScores, Resolutions
<1> QED BY <1>1, <1>2, <1>4, <1>5 DEF StoredScores, RequestedTaskScore

\* Where nothing but the resolution decides the score, the requested one is
\* the task's; where the qualities do, it is the score itself.
LEMMA RequestedAsScored ==
  ASSUME NEW r \in Reports, NEW x \in ServerScores(r.task, r.resolution, r.q)
  PROVE  /\ r.resolution = "fulfilled" => x \in RequestedTaskScore(r.task, r.q)
         /\ r.resolution \in {"mutant_unspecified", "normal_pet"} =>
              r.task = "mutant_specific"
         /\ r.task = "mutant_specific" => RequestedTaskScore(r.task, r.q) = {10}
         /\ (r.resolution = "skipped" => ~Given(r.q)) /\ 0 \in RequestedTaskScore(r.task, r.q)
              => x \in RequestedTaskScore(r.task, r.q)
PROOF
<1>1. r.task \in Tasks /\ r.resolution \in Resolutions
  BY ReportScores
<1>2. /\ ServerBase[r.task] # 0
      /\ r.task = "mutant_specific" => ServerBase[r.task] = 10 /\ r.task \notin ServerNeedsQuality
  BY <1>1 DEF Tasks, ServerBase, ServerNeedsQuality
<1>3. CASE r.resolution = "fulfilled"
  BY <1>2, <1>3 DEF ServerScores, RequestedTaskScore, ServerScoreTask
<1>4. CASE r.resolution = "quality_below"
  BY <1>2, <1>4 DEF ServerScores, RequestedTaskScore
<1>5. CASE r.resolution \in {"mutant_unspecified", "normal_pet"}
  BY <1>2, <1>5 DEF ServerScores, RequestedTaskScore
<1>6. CASE r.resolution = "skipped"
  BY <1>2, <1>6 DEF RequestedTaskScore
<1> QED BY <1>1, <1>3, <1>4, <1>5, <1>6 DEF Resolutions

-----------------------------------------------------------------------------
(* Rows.                                                                   *)

EarlierResolutions == {"fulfilled", "mutant_unspecified", "normal_pet"}

\* The row of report r as an earlier server stores it, as the first UPDATE
\* leaves it, and as it should be.
Raw(row, r) ==
  /\ row \in DatabaseRow
  /\ r.resolution \in EarlierResolutions
  /\ row.taskType \in EarlierTaskTypes(r)
  /\ row.resolution = "fulfilled" /\ row.requested = 0
  /\ row.score \in ServerScores(r.task, r.resolution, r.q)

Nearly(row, r) ==
  /\ row \in DatabaseRow
  /\ NormalizeTaskType(row.taskType) = r.task
  /\ row.resolution = r.resolution
  /\ row.requested \in RequestedTaskScore(r.task, r.q)
  /\ row.score \in ServerScores(r.task, r.resolution, r.q)

Proper(row, r) == Nearly(row, r) /\ row.taskType = r.task

\* The earlier name of a report's task, and what it becomes.
LEMMA EarlierNames ==
  ASSUME NEW r \in Reports, r.resolution \in EarlierResolutions,
         NEW taskType \in EarlierTaskTypes(r)
  PROVE  /\ taskType \in TaskTypes
         /\ r.resolution = "fulfilled" =>
              taskType \notin EndedMutants /\ NormalizeTaskType(taskType) = r.task
         /\ r.resolution # "fulfilled" => r.task = "mutant_specific"
         /\ r.resolution = "mutant_unspecified" => taskType = "mutant_unspecified"
         /\ r.resolution = "normal_pet" => taskType = "normal_pet_as_mutant"
PROOF
<1>1. r.task \in Tasks
  BY ReportScores
<1>2. r.resolution # "fulfilled" => r.task = "mutant_specific"
  BY ReportScores, RequestedAsScored DEF EarlierResolutions
<1>3. CASE r.resolution = "fulfilled"
  <2>1. taskType \in IF r.task = "flower_instrument" THEN MergedTaskTypes ELSE {r.task}
    BY <1>3 DEF EarlierTaskTypes
  <2> QED BY <1>1, <1>3, <2>1, NamesApart DEF NormalizeTaskType, TaskTypes
<1>4. CASE r.resolution = "mutant_unspecified"
  BY <1>2, <1>4 DEF EarlierTaskTypes, TaskTypes, EndedMutants
<1>5. CASE r.resolution = "normal_pet"
  BY <1>2, <1>5 DEF EarlierTaskTypes, TaskTypes, EndedMutants
<1> QED BY <1>3, <1>4, <1>5 DEF EarlierResolutions

\* The first UPDATE has nothing to do in a row it or the present server has
\* written, a requested score of zero included.
LEMMA MigratedKeeps ==
  ASSUME NEW r \in Reports, r.resolution = "skipped" => ~Given(r.q),
         NEW row, Nearly(row, r)
  PROVE  Migrated(row) = row
PROOF
<1>1. row.taskType \notin EndedMutants
  BY NamesApart, ReportScores DEF Nearly, NormalizeTaskType
<1>2. row.taskType = "mutant_specific" => row.requested = 10
  <2>1. row.taskType = "mutant_specific" => r.task = "mutant_specific"
    BY NamesApart DEF Nearly, NormalizeTaskType
  <2> QED BY <2>1, RequestedAsScored DEF Nearly
<1>3. row.requested = 0 => row.score = 0
  <2> SUFFICES ASSUME row.requested = 0 PROVE row.score = 0
    OBVIOUS
  <2>1. row.score \in RequestedTaskScore(r.task, r.q)
    BY RequestedAsScored DEF Nearly
  <2> QED BY <2>1, ReportScores DEF Nearly
<1>4. row.taskType # "mutant_unspecified" /\ row.taskType # "normal_pet_as_mutant"
  BY <1>1 DEF EndedMutants
<1> QED BY <1>1, <1>2, <1>3, <1>4 DEF Migrated, Nearly, DatabaseRow

\* It brings the row of an earlier server nearly into its form.
LEMMA MigratedTranslates ==
  ASSUME NEW r \in Reports, NEW row, Raw(row, r)
  PROVE  Nearly(Migrated(row), r)
PROOF
<1> DEFINE after == Migrated(row)
<1>1. row \in DatabaseRow /\ row.taskType \in EarlierTaskTypes(r)
  BY DEF Raw
<1>2. CASE r.resolution = "fulfilled"
  <2>1. /\ row.taskType \notin EndedMutants
        /\ NormalizeTaskType(row.taskType) = r.task
    BY <1>1, <1>2, EarlierNames DEF Raw
  <2>2. row.score \in RequestedTaskScore(r.task, r.q)
    BY <1>2, RequestedAsScored DEF Raw
  <2>3. row.taskType = "mutant_specific" => r.task = "mutant_specific"
    BY <2>1, NamesApart DEF NormalizeTaskType
  <2> DEFINE requested == IF row.taskType = "mutant_specific" THEN 10 ELSE row.score
  <2>4. requested \in RequestedTaskScore(r.task, r.q)
    BY <2>2, <2>3, RequestedAsScored DEF Raw
  <2>5. row.taskType # "mutant_unspecified" /\ row.taskType # "normal_pet_as_mutant"
    BY <2>1 DEF EndedMutants
  <2>6. after = [row EXCEPT !.requested = requested]
    BY <1>1, <2>1, <2>5 DEF Migrated, Raw, DatabaseRow
  <2> HIDE DEF after, requested
  <2>7. /\ after.taskType = row.taskType /\ after.resolution = "fulfilled"
        /\ after.score = row.score /\ after.requested = requested
        /\ requested \in Int => after \in DatabaseRow
    BY <1>1, <2>6 DEF DatabaseRow, Raw
  <2>8. requested \in Int
    BY <2>4, ReportScores
  <2>9. Nearly(after, r)
    BY <1>2, <2>1, <2>4, <2>7, <2>8 DEF Nearly, Raw
  <2> QED BY <2>9 DEF after
<1>3. CASE r.resolution # "fulfilled"
  <2>1. /\ r.task = "mutant_specific"
        /\ r.resolution = "mutant_unspecified" => row.taskType = "mutant_unspecified"
        /\ r.resolution = "normal_pet" => row.taskType = "normal_pet_as_mutant"
    BY <1>1, <1>3, EarlierNames DEF Raw
  <2>2. r.resolution \in {"mutant_unspecified", "normal_pet"}
    BY <1>3 DEF Raw, EarlierResolutions
  <2>3. row.taskType \in EndedMutants
    BY <2>1, <2>2 DEF EndedMutants
  <2>4. after = [row EXCEPT !.resolution = r.resolution, !.taskType = "mutant_specific",
                          !.requested = 10]
    BY <2>1, <2>2, <2>3 DEF Migrated
  <2>5. 10 \in RequestedTaskScore(r.task, r.q)
    BY <2>1, RequestedAsScored DEF Raw
  <2>6. r.resolution \in Resolutions /\ "mutant_specific" \in TaskTypes
    BY ReportScores, NamesApart DEF TaskTypes
  <2> HIDE DEF after
  <2>7. /\ after.taskType = "mutant_specific" /\ after.resolution = r.resolution
        /\ after.score = row.score /\ after.requested = 10 /\ after \in DatabaseRow
    <3> DEFINE a == [row EXCEPT !.resolution = r.resolution]
               b == [a EXCEPT !.taskType = "mutant_specific"]
    <3>1. a \in DatabaseRow /\ a.resolution = r.resolution /\ a.score = row.score
      BY <1>1, <2>6 DEF DatabaseRow
    <3> HIDE DEF a
    <3>2. /\ b \in DatabaseRow /\ b.resolution = r.resolution /\ b.score = row.score
          /\ b.taskType = "mutant_specific"
      BY <2>6, <3>1 DEF DatabaseRow
    <3>3. after = [b EXCEPT !.requested = 10]
      BY <2>4 DEF a
    <3> HIDE DEF b
    <3> QED BY <3>2, <3>3 DEF DatabaseRow
  <2>8. Nearly(after, r)
    BY <2>1, <2>5, <2>7, NamesApart DEF Nearly, Raw, NormalizeTaskType
  <2> QED BY <2>8 DEF after
<1> QED BY <1>2, <1>3

\* The second UPDATE does the rest.
LEMMA MergeFinishes ==
  ASSUME NEW r \in Reports, NEW row, Nearly(row, r)
  PROVE  Proper([row EXCEPT !.taskType = NormalizeTaskType(@)], r)
PROOF
<1> DEFINE after == [row EXCEPT !.taskType = NormalizeTaskType(@)]
<1>1. r.task \in Tasks
  BY ReportScores
<1>2. /\ after.taskType = r.task /\ after.resolution = row.resolution
      /\ after.requested = row.requested /\ after.score = row.score /\ after \in DatabaseRow
  BY <1>1 DEF Nearly, DatabaseRow, TaskTypes
<1>3. NormalizeTaskType(r.task) = r.task
  BY <1>1, NamesApart DEF NormalizeTaskType
<1> HIDE DEF after
<1>4. Proper(after, r)
  BY <1>2, <1>3 DEF Proper, Nearly
<1> QED BY <1>4 DEF after

-----------------------------------------------------------------------------
(* The ring, wherever it is kept.                                          *)

Recorded(e, r) ==
  /\ e \in EntryRecord
  /\ NormalizeEntry(e).requestedTaskType = r.task
  /\ NormalizeEntry(e).resolution = r.resolution

OldSample(event, r) ==
  /\ r.resolution \in EarlierResolutions
  /\ event.taskType \in EarlierTaskTypes(r) /\ event.resolution = Absent

PresentSample(event, r) ==
  event.taskType = r.task /\ event.resolution = r.resolution

Samples == [taskType : TaskTypes, resolution : Resolutions \cup {Absent},
            q : {report.q : report \in Reports}]

Waits(event, r) ==
  /\ event \in Samples /\ event.q = r.q
  /\ OldSample(event, r) \/ PresentSample(event, r)
  /\ page = "earlier" => OldSample(event, r)

\* There is one report at most, and everything kept is of it.
RingKept ==
  /\ reported = {} => entry = {} /\ outbox = {} /\ rows = {}
  /\ reported # {} => entry # {}
  /\ \A r, s \in reported : r = s
  /\ \A r \in reported :
       /\ r.resolution = "skipped" => ~Given(r.q)
       /\ \A e \in entry : Recorded(e, r)
       /\ \A event \in outbox : Waits(event, r)
       /\ \A row \in rows :
            /\ Raw(row, r) \/ Nearly(row, r)
            /\ phase = "merge" => Nearly(row, r)
            /\ phase = "serving" /\ version = "present" => Proper(row, r)

\* The columns each phase of a start finds.
ColumnsGrow ==
  /\ phase = "resolution" => columns # {}
  /\ phase = "requested_score" => "resolution" \in columns
  /\ ColumnsComplete

MInv == MigrationTypeOK /\ RingKept /\ ColumnsGrow

-----------------------------------------------------------------------------
\* Whatever touches neither the database nor the player, and starts or ends
\* the process if it touches that.
LEMMA OutsideKeepsMInv ==
  ASSUME MInv, UNCHANGED <<database, player>>,
         \/ UNCHANGED process
         \/ phase' \in {"table", "down"} /\ version' \in Versions
  PROVE  MInv'
PROOF
<1>1. UNCHANGED <<columns, rows, page, entry, outbox, reported>>
  BY DEF database, player
<1>2. \/ phase' = phase /\ version' = version
      \/ phase' \in {"table", "down"} /\ version' \in Versions
  BY DEF process
<1>3. MigrationTypeOK'
  BY <1>1, <1>2 DEF MInv, MigrationTypeOK, Phases
<1>4. RingKept'
  <2>1. phase' = "merge" => phase = "merge"
    BY <1>2
  <2>2. phase' = "serving" /\ version' = "present" => phase = "serving" /\ version = "present"
    BY <1>2
  <2> QED BY <1>1, <2>1, <2>2 DEF MInv, RingKept, Waits
<1>5. ColumnsGrow'
  BY <1>1, <1>2 DEF MInv, ColumnsGrow, ColumnsComplete
<1> QED BY <1>3, <1>4, <1>5 DEF MInv

LEMMA ColumnsKeepMInv ==
  ASSUME MInv, CreateTable \/ \E name \in DOMAIN Following : EnsureTaskEventColumn(name)
  PROVE  MInv'
PROOF
<1>1. CASE CreateTable
  <2>1. UNCHANGED <<version, rows, page, entry, outbox, reported>>
    BY <1>1 DEF CreateTable, player
  <2>2. /\ columns' = IF columns # {} THEN columns
                      ELSE IF version = "present" THEN AllColumns ELSE BaseColumns
        /\ phase' = IF version = "present" THEN "resolution" ELSE "serving"
    BY <1>1 DEF CreateTable
  <2>3. MigrationTypeOK'
    BY <2>1, <2>2 DEF MInv, MigrationTypeOK, Phases
  <2>4. RingKept'
    BY <2>1, <2>2 DEF MInv, RingKept, Waits
  <2>5. ColumnsGrow'
    <3>1. version' = "present" => phase' = "resolution" /\ columns' # {}
      BY <2>1, <2>2 DEF AllColumns, BaseColumns
    <3>2. version' # "present" => phase' = "serving" /\ BaseColumns \subseteq columns'
      BY <2>1, <2>2 DEF MInv, MigrationTypeOK, AllColumns
    <3> QED BY <3>1, <3>2 DEF ColumnsGrow, ColumnsComplete
  <2> QED BY <2>3, <2>4, <2>5 DEF MInv
<1>2. ASSUME NEW name \in DOMAIN Following, EnsureTaskEventColumn(name) PROVE MInv'
  <2>1. /\ UNCHANGED <<version, rows, page, entry, outbox, reported>>
        /\ columns' = columns \cup {name}
    BY <1>2 DEF EnsureTaskEventColumn, player
  <2>2. \/ name = "resolution" /\ phase = "resolution" /\ phase' = "requested_score"
        \/ name = "requested_score" /\ phase = "requested_score" /\ phase' = "update"
    BY <1>2 DEF Following, EnsureTaskEventColumn
  <2>3. /\ columns' \in {BaseColumns \cup {"resolution"}, AllColumns}
        /\ phase' = "update" => columns' = AllColumns
    <3>1. columns \in {{}, BaseColumns, BaseColumns \cup {"resolution"}, AllColumns}
      BY DEF MInv, MigrationTypeOK
    <3>2. CASE name = "resolution"
      <4>1. columns # {}
        BY <2>2, <3>2 DEF MInv, ColumnsGrow
      <4> QED BY <2>1, <2>2, <3>1, <3>2, <4>1 DEF AllColumns
    <3>3. CASE name = "requested_score"
      <4>1. "resolution" \in columns
        BY <2>2, <3>3 DEF MInv, ColumnsGrow
      <4>2. columns \in {BaseColumns \cup {"resolution"}, AllColumns}
        BY <3>1, <4>1 DEF BaseColumns
      <4> QED BY <2>1, <3>3, <4>2 DEF AllColumns
    <3> QED BY <2>2, <3>2, <3>3
  <2>4. MigrationTypeOK'
    BY <2>1, <2>2, <2>3 DEF MInv, MigrationTypeOK, Phases
  <2>5. RingKept'
    BY <2>1, <2>2 DEF MInv, RingKept, Waits
  <2>6. ColumnsGrow'
    BY <2>2, <2>3 DEF ColumnsGrow, ColumnsComplete, AllColumns
  <2> QED BY <2>4, <2>5, <2>6 DEF MInv
<1> QED BY <1>1, <1>2

LEMMA UpdatesKeepMInv ==
  ASSUME MInv, UpdateTaskEvents \/ MergeTaskTypes
  PROVE  MInv'
PROOF
<1>1. UNCHANGED <<version, columns, page, entry, outbox, reported>>
  BY DEF UpdateTaskEvents, MergeTaskTypes, player
<1>2. reported \subseteq Reports
  BY DEF MInv, MigrationTypeOK
<1>3. rows # {} => reported # {}
  BY DEF MInv, RingKept
<1>4. CASE UpdateTaskEvents
  <2>1. phase = "update" /\ phase' = "merge" /\ rows' = {Migrated(row) : row \in rows}
    BY <1>4 DEF UpdateTaskEvents
  <2>2. ASSUME NEW r \in reported, NEW row \in rows PROVE Nearly(Migrated(row), r)
    <3>1. Raw(row, r) \/ Nearly(row, r)
      BY DEF MInv, RingKept
    <3>2. r.resolution = "skipped" => ~Given(r.q)
      BY DEF MInv, RingKept
    <3> QED BY <1>2, <3>1, <3>2, MigratedKeeps, MigratedTranslates
  <2>3. rows' \subseteq DatabaseRow
    BY <1>3, <2>1, <2>2 DEF Nearly
  <2>4. \A r \in reported : \A row \in rows' : Nearly(row, r)
    BY <2>1, <2>2
  <2>5. MigrationTypeOK'
    BY <1>1, <2>1, <2>3 DEF MInv, MigrationTypeOK, Phases
  <2>6. RingKept'
    BY <1>1, <2>1, <2>4 DEF MInv, RingKept, Waits
  <2>7. ColumnsGrow'
    BY <1>1, <2>1 DEF MInv, ColumnsGrow, ColumnsComplete
  <2> QED BY <2>5, <2>6, <2>7 DEF MInv
<1>5. CASE MergeTaskTypes
  <2> DEFINE merged(row) == [row EXCEPT !.taskType = NormalizeTaskType(@)]
  <2>1. phase = "merge" /\ phase' = "serving" /\ rows' = {merged(row) : row \in rows}
    BY <1>5 DEF MergeTaskTypes
  <2>2. ASSUME NEW r \in reported, NEW row \in rows PROVE Proper(merged(row), r)
    <3>1. Nearly(row, r)
      BY <2>1 DEF MInv, RingKept
    <3> QED BY <1>2, <3>1, MergeFinishes
  <2> HIDE DEF merged
  <2>3. rows' \subseteq DatabaseRow
    BY <1>3, <2>1, <2>2 DEF Proper, Nearly
  <2>4. \A r \in reported : \A row \in rows' : Proper(row, r) /\ Nearly(row, r)
    BY <2>1, <2>2 DEF Proper
  <2>5. MigrationTypeOK'
    BY <1>1, <2>1, <2>3 DEF MInv, MigrationTypeOK, Phases
  <2>6. RingKept'
    BY <1>1, <2>1, <2>4 DEF MInv, RingKept, Waits
  <2>7. ColumnsGrow'
    BY <1>1, <2>1 DEF MInv, ColumnsGrow, ColumnsComplete, AllColumns
  <2> QED BY <2>5, <2>6, <2>7 DEF MInv
<1> QED BY <1>4, <1>5

-----------------------------------------------------------------------------
\* What the present page makes of the record and the sample of a report.
LEMMA EarlierRecordNormalized ==
  ASSUME NEW r \in Reports, r.resolution \in EarlierResolutions,
         NEW taskType \in EarlierTaskTypes(r)
  PROVE  LET n == NormalizeEntry([requestedTaskType |-> Absent, taskType |-> taskType,
                                  resolution |-> Absent]) IN
         n.requestedTaskType = r.task /\ n.resolution = r.resolution
PROOF
<1> DEFINE e == [requestedTaskType |-> Absent, taskType |-> taskType, resolution |-> Absent]
<1>1. CASE r.resolution = "fulfilled"
  <2>1. taskType \notin EndedMutants /\ NormalizeTaskType(taskType) = r.task
    BY <1>1, EarlierNames
  <2>2. NormalizeEntry(e) = [e EXCEPT !.requestedTaskType = NormalizeTaskType(taskType),
                                      !.resolution = "fulfilled"]
    BY <2>1 DEF NormalizeEntry, Or
  <2> QED BY <1>1, <2>1, <2>2
<1>2. CASE r.resolution # "fulfilled"
  <2>1. /\ r.task = "mutant_specific"
        /\ r.resolution = "mutant_unspecified" => taskType = "mutant_unspecified"
        /\ r.resolution = "normal_pet" => taskType = "normal_pet_as_mutant"
        /\ r.resolution \in {"mutant_unspecified", "normal_pet"}
    BY <1>2, EarlierNames DEF EarlierResolutions
  <2>2. NormalizeEntry(e) = [e EXCEPT !.requestedTaskType = "mutant_specific",
                                      !.resolution = r.resolution]
    BY <2>1 DEF NormalizeEntry, EndedMutants
  <2> QED BY <2>1, <2>2
<1> QED BY <1>1, <1>2

LEMMA SampleNormalized ==
  ASSUME NEW r \in Reports, NEW event \in Samples,
         OldSample(event, r) \/ PresentSample(event, r)
  PROVE  LET n == NormalizePendingEvent(event) IN
         n \in Samples /\ n.q = event.q /\ PresentSample(n, r)
PROOF
<1> DEFINE e == [requestedTaskType |-> Absent, taskType |-> event.taskType,
                 resolution |-> event.resolution]
           m == NormalizeEntry(e)
           n == NormalizePendingEvent(event)
<1>1. r.task \in Tasks /\ r.resolution \in Resolutions
  BY ReportScores
<1>2. m.requestedTaskType = r.task /\ m.resolution = r.resolution
  <2>1. CASE OldSample(event, r)
    BY <2>1, EarlierRecordNormalized DEF OldSample
  <2>2. CASE PresentSample(event, r)
    <3>1. /\ r.task \notin EndedMutants /\ NormalizeTaskType(r.task) = r.task
          /\ r.resolution # Absent
      BY <1>1, NamesApart DEF NormalizeTaskType
    <3>2. m = [e EXCEPT !.requestedTaskType = r.task, !.resolution = r.resolution]
      BY <2>2, <3>1 DEF PresentSample, NormalizeEntry, Or
    <3> QED BY <3>2
  <2> QED BY <2>1, <2>2
<1>3. n = [event EXCEPT !.taskType = m.requestedTaskType, !.resolution = m.resolution]
  BY DEF NormalizePendingEvent
<1> HIDE DEF m, n
<1>4. n \in Samples /\ n.q = event.q /\ n.taskType = r.task /\ n.resolution = r.resolution
  BY <1>1, <1>2, <1>3 DEF Samples, TaskTypes
<1> QED BY <1>4 DEF n, PresentSample

LEMMA RecordingKeepsMInv ==
  ASSUME MInv, NEW r \in Reports, RecordEarlier(r) \/ Record(r)
  PROVE  MInv'
PROOF
<1>1. UNCHANGED <<phase, version, columns, rows, page>>
  BY DEF RecordEarlier, Record, process, database
<1>2. r.task \in Tasks /\ r.resolution \in Resolutions
  BY ReportScores
<1>3. /\ reported = {} /\ reported' = {r} /\ rows' = {}
      /\ r.resolution = "skipped" => ~Given(r.q)
  BY <1>1 DEF RecordEarlier, Record, MInv, RingKept
<1>4. PICK e, event :
        /\ entry' = {e} /\ outbox' = {event}
        /\ Recorded(e, r) /\ event \in Samples /\ event.q = r.q
        /\ OldSample(event, r) \/ PresentSample(event, r)
        /\ page = "earlier" => OldSample(event, r)
  <2>1. ASSUME RecordEarlier(r)
        PROVE  \E e, event :
                 /\ entry' = {e} /\ outbox' = {event}
                 /\ Recorded(e, r) /\ event \in Samples /\ event.q = r.q
                 /\ OldSample(event, r)
    <3>1. r.resolution \in EarlierResolutions
      <4>1. StoredScores(r.task, r.resolution, r.q) # {}
        BY MigrationAssumption
      <4> QED BY <1>2, <2>1 DEF RecordEarlier, Resolutions, EarlierResolutions
    <3>2. PICK taskType \in EarlierTaskTypes(r) :
            /\ entry' = {[requestedTaskType |-> Absent, taskType |-> taskType,
                          resolution |-> Absent]}
            /\ outbox' = {[taskType |-> taskType, resolution |-> Absent, q |-> r.q]}
      BY <2>1 DEF RecordEarlier
    <3>3. taskType \in TaskTypes
      BY <3>1, EarlierNames
    <3> DEFINE e == [requestedTaskType |-> Absent, taskType |-> taskType,
                     resolution |-> Absent]
               event == [taskType |-> taskType, resolution |-> Absent, q |-> r.q]
    <3>4. Recorded(e, r)
      BY <3>1, <3>3, EarlierRecordNormalized DEF Recorded, EntryRecord
    <3>5. event \in Samples /\ event.q = r.q /\ OldSample(event, r)
      BY <3>1, <3>3 DEF Samples, OldSample
    <3> QED BY <3>2, <3>4, <3>5
  <2>2. ASSUME Record(r)
        PROVE  \E e, event :
                 /\ entry' = {e} /\ outbox' = {event}
                 /\ Recorded(e, r) /\ event \in Samples /\ event.q = r.q
                 /\ PresentSample(event, r)
    <3> DEFINE e == [requestedTaskType |-> r.task, taskType |-> Absent,
                     resolution |-> r.resolution]
               event == [taskType |-> r.task, resolution |-> r.resolution, q |-> r.q]
    <3>1. entry' = {e} /\ outbox' = {event}
      BY <2>2 DEF Record
    <3>2. e \in EntryRecord /\ e \in AnyRecord
      BY <1>2, NamesApart DEF EntryRecord, AnyRecord, TaskTypes
    <3>3. Recorded(e, r)
      BY <1>2, <3>2, PresentFormKept DEF Recorded
    <3>4. event \in Samples /\ event.q = r.q /\ PresentSample(event, r)
      BY <1>2 DEF Samples, PresentSample, TaskTypes
    <3> QED BY <3>1, <3>3, <3>4
  <2>3. Record(r) => page = "present"
    BY DEF Record
  <2> QED BY <2>1, <2>2, <2>3
<1>5. MigrationTypeOK'
  BY <1>1, <1>3, <1>4 DEF MInv, MigrationTypeOK, Recorded, Samples
<1>6. RingKept'
  <2>1. Recorded(e, r)' /\ Waits(event, r)'
    BY <1>1, <1>4 DEF Waits
  <2> QED BY <1>3, <1>4, <2>1 DEF RingKept
<1>7. ColumnsGrow'
  BY <1>1 DEF MInv, ColumnsGrow, ColumnsComplete
<1> QED BY <1>5, <1>6, <1>7 DEF MInv

LEMMA PageKeepsMInv ==
  ASSUME MInv, ReloadPage \/ Mutate
  PROVE  MInv'
PROOF
<1>1. /\ UNCHANGED <<phase, version, columns, rows, reported>>
      /\ page' = "present"
  BY DEF ReloadPage, Mutate, process, database
<1>2. reported \subseteq Reports
  BY DEF MInv, MigrationTypeOK
<1>3. ColumnsGrow'
  BY <1>1 DEF MInv, ColumnsGrow, ColumnsComplete
<1>4. CASE ReloadPage
  <2>1. UNCHANGED <<entry, outbox>>
    BY <1>4 DEF ReloadPage
  <2>2. MigrationTypeOK'
    BY <1>1, <2>1 DEF MInv, MigrationTypeOK, Versions
  <2>3. RingKept'
    BY <1>1, <2>1 DEF MInv, RingKept, Waits
  <2> QED BY <1>3, <2>2, <2>3 DEF MInv
<1>5. CASE Mutate
  <2>1. /\ entry' = {NormalizeEntry(e) : e \in entry}
        /\ outbox' = {NormalizePendingEvent(event) : event \in outbox}
    BY <1>5 DEF Mutate
  <2>2. ASSUME NEW r \in reported, NEW e \in entry PROVE Recorded(NormalizeEntry(e), r)
    <3>1. Recorded(e, r) /\ e \in AnyRecord
      BY EntriesNormalizable DEF MInv, RingKept, Recorded
    <3>2. /\ NormalizeEntry(e) \in AnyRecord
          /\ NormalizeEntry(e).requestedTaskType \in Tasks
          /\ NormalizeEntry(e).resolution \in Resolutions
      BY <3>1, EntryNormalized
    <3> DEFINE n == NormalizeEntry(e)
    <3>3. n.requestedTaskType = r.task /\ n.resolution = r.resolution
      BY <3>1 DEF Recorded
    <3> HIDE DEF n
    <3>4. NormalizeEntry(n) = n
      BY <3>2, PresentFormKept DEF n
    <3>5. n \in EntryRecord
      BY <3>2 DEF n, AnyRecord, EntryRecord
    <3>6. Recorded(n, r)
      BY <3>3, <3>4, <3>5 DEF Recorded
    <3> QED BY <3>6 DEF n
  <2>3. ASSUME NEW r \in reported, NEW event \in outbox
        PROVE  Waits(NormalizePendingEvent(event), r)'
    <3>1. Waits(event, r)
      BY DEF MInv, RingKept
    <3> DEFINE n == NormalizePendingEvent(event)
    <3>2. n \in Samples /\ n.q = event.q /\ PresentSample(n, r)
      BY <1>2, <3>1, SampleNormalized DEF Waits
    <3> HIDE DEF n
    <3>3. n \in Samples /\ n.q = r.q /\ PresentSample(n, r) /\ page' # "earlier"
      BY <1>1, <3>1, <3>2 DEF Waits
    <3>4. Waits(n, r)'
      BY <3>3 DEF Waits
    <3> QED BY <3>4 DEF n
  <2>4. reported = {} => entry = {} /\ outbox = {}
    BY DEF MInv, RingKept
  <2>5. entry' \subseteq EntryRecord /\ outbox' \subseteq Samples
    <3>1. entry' \subseteq EntryRecord
      BY <2>1, <2>2, <2>4 DEF Recorded
    <3>2. outbox' \subseteq Samples
      BY <2>1, <2>3, <2>4 DEF Waits
    <3> QED BY <3>1, <3>2
  <2>6. MigrationTypeOK'
    BY <1>1, <2>5 DEF MInv, MigrationTypeOK, Samples, Versions
  <2>7. RingKept'
    <3>1. \A r \in reported' : \A e \in entry' : Recorded(e, r)
      BY <1>1, <2>1, <2>2
    <3>2. \A r \in reported' : \A event \in outbox' : Waits(event, r)'
      BY <1>1, <2>1, <2>3
    <3>3. (reported' = {} => entry' = {} /\ outbox' = {}) /\ (reported' # {} => entry' # {})
      BY <1>1, <2>1 DEF MInv, RingKept
    <3> QED BY <1>1, <3>1, <3>2, <3>3 DEF MInv, RingKept
  <2> QED BY <1>3, <2>6, <2>7 DEF MInv
<1> QED BY <1>4, <1>5

\* A body the present server accepts says of the report what it should.
LEMMA AcceptedBody ==
  ASSUME NEW r \in Reports, NEW body \in Samples,
         OldSample(body, r) \/ PresentSample(body, r), body.taskType \in Tasks
  PROVE  body.taskType = r.task /\ Or(body.resolution, "fulfilled") = r.resolution
PROOF
<1>1. CASE OldSample(body, r)
  <2>1. r.resolution = "fulfilled"
    <3> SUFFICES ASSUME r.resolution # "fulfilled" PROVE FALSE
      OBVIOUS
    <3>1. body.taskType \in EndedMutants
      BY <1>1, EarlierNames DEF OldSample, EarlierResolutions, EndedMutants
    <3> QED BY <3>1, NamesApart
  <2>2. NormalizeTaskType(body.taskType) = r.task
    BY <1>1, <2>1, EarlierNames DEF OldSample
  <2> QED BY <1>1, <2>1, <2>2, NamesApart DEF OldSample, NormalizeTaskType, Or
<1>2. CASE PresentSample(body, r)
  BY <1>2, ReportScores, NamesApart DEF PresentSample, Or
<1> QED BY <1>1, <1>2

LEMMA PostKeepsMInv ==
  ASSUME MInv, NEW event \in outbox, Post(event)
  PROVE  MInv'
PROOF
<1>1. UNCHANGED <<phase, version, columns, page, entry, reported>> /\ phase = "serving"
  BY DEF Post, process
<1>2. PICK r \in reported : reported = {r}
  BY DEF MInv, RingKept
<1>3. r \in Reports /\ r.task \in Tasks /\ r.resolution \in Resolutions
  BY ReportScores DEF MInv, MigrationTypeOK
<1> DEFINE body == Sent(event)
<1>4. Waits(event, r)
  BY <1>2 DEF MInv, RingKept
<1>5. /\ body \in Samples /\ body.q = r.q
      /\ OldSample(body, r) \/ PresentSample(body, r)
      /\ page # "present" => OldSample(body, r)
  <2>1. CASE page = "present"
    <3>1. body = NormalizePendingEvent(event)
      BY <2>1 DEF Sent
    <3> QED BY <1>3, <1>4, <2>1, <3>1, SampleNormalized DEF Waits
  <2>2. CASE page # "present"
    <3>1. body = event /\ page = "earlier"
      BY <2>2 DEF Sent, MInv, MigrationTypeOK, Versions
    <3> QED BY <1>4, <3>1 DEF Waits
  <2> QED BY <2>1, <2>2
<1>6. rows' = IF rows # {} THEN rows
              ELSE IF version = "earlier" THEN {EarlierRow(body, r)}
              ELSE IF Accepted(body) THEN {Row(body)} ELSE {}
  BY <1>2 DEF Post
<1>7. (page = version \/ version = "present") /\ page \in Versions
  BY DEF Post, MInv, MigrationTypeOK
<1> HIDE DEF body
<1>8. ASSUME version = "earlier" PROVE Raw(EarlierRow(body, r), r)
  <2>1. OldSample(body, r)
    BY <1>5, <1>7, <1>8
  <2> DEFINE row == EarlierRow(body, r)
  <2>2. /\ row.taskType = body.taskType /\ row.resolution = "fulfilled"
        /\ row.requested = 0
        /\ row.score = CHOOSE score \in ServerScores(r.task, r.resolution, r.q) : TRUE
    BY DEF EarlierRow
  <2>3. row.score \in ServerScores(r.task, r.resolution, r.q) /\ row.score \in Int
    BY <1>3, <2>2, ReportScores
  <2>4. row \in DatabaseRow
    BY <1>5, <2>3, NamesApart DEF EarlierRow, DatabaseRow, Samples
  <2> HIDE DEF row
  <2>5. Raw(row, r)
    BY <2>1, <2>2, <2>3, <2>4 DEF Raw, OldSample
  <2> QED BY <2>5 DEF row
<1>9. ASSUME Accepted(body) PROVE Proper(Row(body), r)
  <2>1. body.taskType = r.task /\ Or(body.resolution, "fulfilled") = r.resolution
    BY <1>3, <1>5, <1>9, AcceptedBody DEF Accepted
  <2> DEFINE row == Row(body)
  <2>2. /\ row.taskType = r.task /\ row.resolution = r.resolution
        /\ row.requested = CHOOSE score \in RequestedTaskScore(r.task, r.q) : TRUE
        /\ row.score = CHOOSE score \in ServerScores(r.task, r.resolution, r.q) : TRUE
    BY <1>5, <2>1 DEF Row
  <2>3. /\ row.requested \in RequestedTaskScore(r.task, r.q) /\ row.requested \in Int
        /\ row.score \in ServerScores(r.task, r.resolution, r.q) /\ row.score \in Int
    BY <1>3, <2>2, ReportScores
  <2>4. row \in DatabaseRow
    BY <1>3, <2>2, <2>3 DEF Row, DatabaseRow, TaskTypes
  <2>5. NormalizeTaskType(r.task) = r.task
    BY <1>3, NamesApart DEF NormalizeTaskType
  <2> HIDE DEF row
  <2>6. Proper(row, r)
    BY <2>2, <2>3, <2>4, <2>5 DEF Proper, Nearly
  <2> QED BY <2>6 DEF row
<1>10. /\ rows' \subseteq DatabaseRow
       /\ \A row \in rows' :
            /\ Raw(row, r) \/ Nearly(row, r)
            /\ version = "present" => Proper(row, r)
  <2>1. CASE rows # {}
    BY <1>1, <1>2, <1>6, <2>1 DEF MInv, RingKept, MigrationTypeOK
  <2>2. CASE rows = {} /\ version = "earlier"
    BY <1>6, <1>8, <2>2 DEF Raw
  <2>3. CASE rows = {} /\ version # "earlier"
    BY <1>6, <1>9, <2>3 DEF Proper, Nearly
  <2> QED BY <2>1, <2>2, <2>3
<1>11. outbox' \subseteq outbox
  BY DEF Post
<1>12. MigrationTypeOK'
  BY <1>1, <1>10, <1>11 DEF MInv, MigrationTypeOK
<1>13. RingKept'
  <2>1. \A x \in outbox' : Waits(x, r)'
    BY <1>1, <1>2, <1>11 DEF MInv, RingKept, Waits
  <2>2. reported' = {r} /\ entry' # {} /\ phase' = "serving"
    BY <1>1, <1>2 DEF MInv, RingKept
  <2> QED BY <1>1, <1>2, <1>10, <2>1, <2>2 DEF MInv, RingKept
<1>14. ColumnsGrow'
  BY <1>1 DEF MInv, ColumnsGrow, ColumnsComplete
<1> QED BY <1>12, <1>13, <1>14 DEF MInv

-----------------------------------------------------------------------------
LEMMA InitMInv == MigrationInit => MInv
PROOF
<1> SUFFICES ASSUME MigrationInit PROVE MInv
  OBVIOUS
<1>1. MigrationTypeOK
  BY DEF MigrationInit, MigrationTypeOK, Phases, Versions
<1>2. RingKept /\ ColumnsGrow
  BY DEF MigrationInit, RingKept, ColumnsGrow, ColumnsComplete
<1> QED BY <1>1, <1>2 DEF MInv

LEMMA ProcessKeepsMInv == MInv /\ (Start \/ Crash) => MInv'
PROOF
<1> SUFFICES ASSUME MInv, Start \/ Crash PROVE MInv'
  OBVIOUS
<1>1. CASE Crash
  <2>1. phase' = "down" /\ version' \in Versions /\ UNCHANGED <<database, player>>
    BY <1>1 DEF Crash, MInv, MigrationTypeOK
  <2> QED BY <2>1, OutsideKeepsMInv
<1>2. CASE Start
  BY <1>2, ColumnsKeepMInv, UpdatesKeepMInv DEF Start
<1> QED BY <1>1, <1>2

LEMMA PlayerKeepsMInv == MInv /\ Player => MInv'
PROOF
BY RecordingKeepsMInv, PageKeepsMInv, PostKeepsMInv DEF Player

\* A row is settled exactly when it says what it should of the report.
LEMMA SettledIsProper ==
  ASSUME MInv, NEW row \in rows
  PROVE  \E r \in reported :
           /\ r \in Reports /\ (r.resolution = "skipped" => ~Given(r.q))
           /\ reported = {r}
           /\ Raw(row, r) \/ Nearly(row, r)
           /\ Settled(row) <=> Proper(row, r)
PROOF
<1>1. PICK r \in reported : reported = {r}
  BY DEF MInv, RingKept
<1>2. PICK e \in entry : TRUE
  BY DEF MInv, RingKept
<1>3. /\ r \in Reports /\ row \in DatabaseRow
      /\ r.resolution = "skipped" => ~Given(r.q)
      /\ Raw(row, r) \/ Nearly(row, r)
  BY <1>1 DEF MInv, RingKept, MigrationTypeOK
<1>4. \A x \in entry : /\ NormalizeEntry(x).requestedTaskType = r.task
                       /\ NormalizeEntry(x).resolution = r.resolution
                       /\ CountedAs(x) = r.task
  <2> SUFFICES ASSUME NEW x \in entry
               PROVE  /\ NormalizeEntry(x).requestedTaskType = r.task
                      /\ NormalizeEntry(x).resolution = r.resolution
                      /\ CountedAs(x) = r.task
    OBVIOUS
  <2>1. Recorded(x, r)
    BY <1>1 DEF MInv, RingKept
  <2> QED BY <2>1, EntriesNormalizable, EntryNormalized DEF Recorded
<1>5. NormalizeTaskType(r.task) = r.task
  BY <1>3, ReportScores, NamesApart DEF NormalizeTaskType
<1>6. Settled(row) <=> Proper(row, r)
  BY <1>1, <1>2, <1>3, <1>4, <1>5 DEF Settled, Proper, Nearly
<1> QED BY <1>1, <1>3, <1>6

\* RowsTranslated holds wherever the ring is kept as it should be.
LEMMA MInvImpliesRowsTranslated == MInv => RowsTranslated
PROOF
<1> SUFFICES ASSUME MInv, phase = "serving", version = "present", NEW row \in rows
             PROVE  Settled(row)
  BY DEF RowsTranslated
<1>1. PICK r \in reported : Settled(row) <=> Proper(row, r)
  BY SettledIsProper
<1>2. Proper(row, r)
  BY <1>1 DEF MInv, RingKept
<1> QED BY <1>1, <1>2

\* The two UPDATEs leave a settled row alone.
LEMMA UpdatesKeepSettledRows ==
  ASSUME MInv, UpdateTaskEvents \/ MergeTaskTypes, NEW row \in rows, Settled(row)
  PROVE  row \in rows'
PROOF
<1>1. PICK r \in reported :
        /\ r \in Reports /\ (r.resolution = "skipped" => ~Given(r.q)) /\ Proper(row, r)
  BY SettledIsProper
<1>2. CASE UpdateTaskEvents
  <2>1. Migrated(row) = row
    BY <1>1, MigratedKeeps DEF Proper
  <2> QED BY <1>2, <2>1 DEF UpdateTaskEvents
<1>3. CASE MergeTaskTypes
  <2>1. NormalizeTaskType(row.taskType) = row.taskType
    BY <1>1 DEF Proper, Nearly
  <2>2. [row EXCEPT !.taskType = NormalizeTaskType(@)] = row
    BY <1>1, <2>1 DEF Proper, Nearly, DatabaseRow
  <2> QED BY <1>3, <2>2 DEF MergeTaskTypes
<1> QED BY <1>2, <1>3

LEMMA SettledRowsStay ==
  ASSUME MInv, NEW row \in rows, Settled(row),
         Start \/ Crash \/ Player \/ UNCHANGED rows
  PROVE  row \in rows'
PROOF
<1>1. CASE UpdateTaskEvents \/ MergeTaskTypes
  BY <1>1, UpdatesKeepSettledRows
<1>2. CASE \E event \in outbox : Post(event)
  BY <1>2 DEF Post
<1>3. CASE Start /\ ~(UpdateTaskEvents \/ MergeTaskTypes)
  BY <1>3 DEF Start, CreateTable, EnsureTaskEventColumn
<1>4. CASE Crash \/ UNCHANGED rows
  BY <1>4 DEF Crash, database
<1>5. CASE Player /\ ~\E event \in outbox : Post(event)
  BY <1>5 DEF Player, RecordEarlier, Record, ReloadPage, Mutate, database
<1> QED BY <1>1, <1>2, <1>3, <1>4, <1>5

-----------------------------------------------------------------------------
(* The runs of the script.                                                 *)

ScriptTypeOK ==
  /\ origin \in 1..LastVersion /\ head \in 1..LastVersion
  /\ image \in Images /\ rollback \in Images /\ container \in Images
  /\ lock \subseteq Scripts
  /\ line \in [Scripts -> Lines]
  /\ old \in [Scripts -> Images] /\ new \in [Scripts -> Images]
  /\ served \subseteq 1..LastVersion
  /\ lost \subseteq Parts

Over == {"start", "succeeded"}

\* The lock is held by one run at most, for as long as it lasts.
Locked ==
  /\ \A s, t \in lock : s = t
  /\ \A s \in Scripts : s \in lock <=> line[s] \notin Over

\* A process runs in a container, and when it serves its image has served.
ProcessOfContainer ==
  /\ phase # "down" => container # None
  /\ phase = "serving" => container \in served

\* What is so between runs, and until a run builds, of the code that is or was
\* checked out, for each part that is not lost: code and image are of one
\* revision, the container is of the image, and the image has served.
Steady(code) ==
  /\ lost \cap {"code", "image"} = {} /\ image # None => code = image
  /\ lost \cap {"image", "container"} = {} => container = image
  /\ "image" \notin lost => image \in served \/ (image = None /\ rollback = None)

\* What a run has to go back to once it has tagged.
Kept(s) ==
  "image" \notin lost /\ rollback # None =>
    rollback \in served /\ ("code" \notin lost => rollback = old[s])

\* Where a run stands, whatever has gone wrong...
Stands(s) ==
  /\ line[s] \notin Over => old[s] \in 1..LastVersion
  /\ line[s] \in {"fetch", "tag", "merge"} => old[s] = head
  /\ line[s] \in {"tag", "merge"} => new[s] \in 1..LastVersion
  /\ line[s] \in {"config", "build", "up", "health"} => head = new[s]
  /\ line[s] \in {"up", "health"} => image = head
  /\ line[s] = "health" => container = head
  /\ line[s] \in {"rollback", "find", "restore", "reup"} => image # None
  /\ line[s] \in {"restore", "reup"} => rollback # None

\* ...and how it can get back to what it found, as far as nothing is lost.
CanUndo(s) ==
  /\ line[s] \in {"fetch", "tag", "merge", "config", "build"} => Steady(old[s])
  /\ line[s] \notin Over \cup {"fetch", "tag"} => Kept(s)
  /\ line[s] \in {"find", "restore", "reup"} /\ "code" \notin lost => head = old[s]
  /\ line[s] = "reup" /\ "image" \notin lost => image = rollback

SInv ==
  /\ ScriptTypeOK
  /\ Locked
  /\ ProcessOfContainer
  /\ \A s \in Scripts : Stands(s) /\ CanUndo(s)
  /\ lock = {} => Steady(head)

\* The number no version has.
LEMMA NoneIsNoVersion == None \notin 1..LastVersion /\ None \in Images
PROOF
BY DeploymentAssumption DEF None, Images

LEMMA VersionsAreImages == 1..LastVersion \subseteq Images
PROOF
BY DeploymentAssumption DEF Images

\* Steps of anything but the script.
LEMMA OutsideKeepsSInv ==
  ASSUME SInv, UNCHANGED <<head, docker, script, lost>>,
         origin' \in 1..LastVersion,
         served \subseteq served', served' \subseteq 1..LastVersion,
         phase' # "down" => container # None,
         phase' = "serving" => container \in served'
  PROVE  SInv'
PROOF
<1>1. UNCHANGED <<head, image, rollback, container, lock, line, old, new, lost>>
  BY DEF docker, script
<1>2. ScriptTypeOK'
  BY <1>1 DEF SInv, ScriptTypeOK
<1>3. Locked' /\ ProcessOfContainer'
  BY <1>1 DEF SInv, Locked, ProcessOfContainer
<1>4. ASSUME NEW s \in Scripts PROVE Stands(s)' /\ CanUndo(s)'
  <2>1. Stands(s)'
    BY <1>1 DEF SInv, Stands
  <2>2. Steady(old[s]) => Steady(old[s])'
    BY <1>1 DEF Steady
  <2>3. CanUndo(s) => CanUndo(s)'
    BY <1>1, <2>2 DEF CanUndo, Kept
  <2> QED BY <1>1, <2>1, <2>3 DEF SInv
<1>5. lock' = {} => Steady(head)'
  <2>1. Steady(head) => Steady(head)'
    BY <1>1 DEF Steady
  <2> QED BY <1>1, <2>1 DEF SInv
<1> QED BY <1>2, <1>3, <1>4, <1>5 DEF SInv

\* A step of run s, which has the lock or finds it free.
LEMMA RunKeepsSInv ==
  ASSUME SInv, NEW s \in Scripts, s \in lock \/ lock = {}, NEW next \in Lines,
         line' = [line EXCEPT ![s] = next],
         lock' = IF next \in Over THEN lock \ {s} ELSE lock \cup {s},
         ScriptTypeOK', ProcessOfContainer',
         Stands(s)', CanUndo(s)',
         next \in Over => Steady(head)'
  PROVE  SInv'
PROOF
<1>1. line \in [Scripts -> Lines] /\ lock \subseteq Scripts
  BY DEF SInv, ScriptTypeOK
<1>2. lock \subseteq {s} /\ lock' = IF next \in Over THEN {} ELSE {s}
  BY DEF SInv, Locked
<1>3. ASSUME NEW t \in Scripts, t # s
      PROVE  line'[t] = line[t] /\ line[t] \in Over /\ t \notin lock'
  BY <1>1, <1>2, <1>3 DEF SInv, Locked
<1>4. Locked'
  BY <1>1, <1>2, <1>3 DEF Locked
<1>5. ASSUME NEW t \in Scripts PROVE Stands(t)' /\ CanUndo(t)'
  <2>1. CASE t # s
    BY <1>3, <2>1 DEF Stands, CanUndo, Over
  <2> QED BY <2>1
<1>6. lock' = {} => next \in Over
  BY <1>2
<1> QED BY <1>4, <1>5, <1>6 DEF SInv

\* The two ways a run goes on.
LEMMA ProceedKeepsSInv ==
  ASSUME SInv, NEW s \in Scripts, line[s] \notin Over,
         NEW next \in Lines \ Over, Proceed(s, next),
         ScriptTypeOK', ProcessOfContainer', Stands(s)', CanUndo(s)'
  PROVE  SInv'
PROOF
<1>1. s \in lock
  BY DEF SInv, Locked
<1> QED BY <1>1, RunKeepsSInv DEF Proceed, Goto

LEMMA ExitKeepsSInv ==
  ASSUME SInv, NEW s \in Scripts, s \in lock, NEW result \in Over, Exit(s, result),
         head' \in 1..LastVersion, UNCHANGED <<origin, image, rollback, served>>,
         container' \in Images, lost' \subseteq Parts,
         ProcessOfContainer', Steady(head)'
  PROVE  SInv'
PROOF
<1>1. /\ line' = [line EXCEPT ![s] = result] /\ lock' = lock \ {s}
      /\ old' = [old EXCEPT ![s] = None] /\ new' = [new EXCEPT ![s] = None]
  BY DEF Exit, Goto
<1>2. result \in Lines
  BY DEF Over, Lines
<1>3. ScriptTypeOK'
  BY <1>1, <1>2, NoneIsNoVersion DEF SInv, ScriptTypeOK
<1>4. line'[s] = result
  BY <1>1 DEF SInv, ScriptTypeOK
<1>5. Stands(s)' /\ CanUndo(s)'
  BY <1>4 DEF Stands, CanUndo, Over
<1> QED BY <1>1, <1>2, <1>3, <1>5, RunKeepsSInv

-----------------------------------------------------------------------------
\* The parts of the invariant a step of the run s starts from.
LEMMA RunStands ==
  ASSUME SInv, NEW s \in Scripts, line[s] \notin Over
  PROVE  /\ s \in lock
         /\ Stands(s) /\ CanUndo(s)
         /\ old[s] \in 1..LastVersion /\ head \in 1..LastVersion
         /\ line \in [Scripts -> Lines] /\ new \in [Scripts -> Images]
         /\ old \in [Scripts -> Images]
PROOF
BY DEF SInv, Locked, Stands, ScriptTypeOK

LEMMA BeginKeepsSInv ==
  ASSUME SInv, NEW s \in Scripts, Begin(s)
  PROVE  SInv'
PROOF
<1>1. /\ lock = {} /\ lock' = lock \cup {s} /\ line' = [line EXCEPT ![s] = "fetch"]
      /\ old' = [old EXCEPT ![s] = head]
      /\ UNCHANGED <<phase, served, origin, head, image, rollback, container, new, lost>>
  BY DEF Begin, MayLock, Goto, outside, process, checkout, docker
<1>2. "fetch" \in Lines /\ "fetch" \notin Over
  BY DEF Lines, Over
<1>3. /\ ScriptTypeOK /\ ProcessOfContainer
      /\ Steady(head)
  BY <1>1 DEF SInv
<1>4. head \in 1..LastVersion /\ head \in Images
  BY <1>3, VersionsAreImages DEF ScriptTypeOK
<1>5. ScriptTypeOK' /\ ProcessOfContainer'
  BY <1>1, <1>2, <1>3, <1>4 DEF ScriptTypeOK, ProcessOfContainer
<1>6. line'[s] = "fetch" /\ old'[s] = head
  BY <1>1, <1>3 DEF ScriptTypeOK
<1>7. Stands(s)'
  BY <1>1, <1>4, <1>6 DEF Stands
<1>8. CanUndo(s)'
  BY <1>1, <1>3, <1>6 DEF CanUndo, Steady
<1> QED BY <1>1, <1>2, <1>5, <1>7, <1>8, RunKeepsSInv

LEMMA FetchKeepsSInv ==
  ASSUME SInv, NEW s \in Scripts, Fetch(s)
  PROVE  SInv'
PROOF
<1>1. /\ line[s] = "fetch"
      /\ UNCHANGED <<phase, served, origin, head, image, rollback, container, lost>>
  BY DEF Fetch, outside, process, checkout, docker
<1>2. line[s] \notin Over /\ "tag" \in Lines /\ "tag" \notin Over /\ "start" \in Over
  BY <1>1 DEF Over, Lines
<1>3. /\ s \in lock /\ old[s] = head /\ Steady(head)
      /\ ScriptTypeOK /\ ProcessOfContainer
  BY <1>1, <1>2, RunStands DEF Stands, CanUndo, SInv
<1>4. ProcessOfContainer' /\ Steady(head)'
  BY <1>1, <1>3 DEF ProcessOfContainer, Steady
<1>5. CASE Exit(s, "start")
  BY <1>1, <1>2, <1>3, <1>4, <1>5, ExitKeepsSInv DEF ScriptTypeOK
<1>6. CASE /\ new' = [new EXCEPT ![s] = origin]
           /\ Goto(s, "tag")
           /\ UNCHANGED <<lock, old>>
  <2>1. line' = [line EXCEPT ![s] = "tag"] /\ lock' = lock \cup {s}
    BY <1>3, <1>6 DEF Goto
  <2>2. origin \in Images /\ origin \in 1..LastVersion
    BY <1>3, VersionsAreImages DEF ScriptTypeOK
  <2>3. ScriptTypeOK'
    BY <1>1, <1>2, <1>3, <1>6, <2>1, <2>2 DEF ScriptTypeOK
  <2>4. line'[s] = "tag" /\ new'[s] = origin /\ old'[s] = old[s]
    BY <1>3, <1>6, <2>1 DEF ScriptTypeOK
  <2>5. Stands(s)'
    BY <1>1, <1>3, <2>2, <2>4 DEF Stands, ScriptTypeOK
  <2>6. CanUndo(s)'
    BY <1>1, <1>3, <2>4 DEF CanUndo, Steady
  <2> QED BY <1>2, <1>3, <1>4, <2>1, <2>3, <2>5, <2>6, RunKeepsSInv
<1> QED BY <1>5, <1>6 DEF Fetch

LEMMA TagKeepsSInv ==
  ASSUME SInv, NEW s \in Scripts, Tag(s)
  PROVE  SInv'
PROOF
<1>1. /\ line[s] = "tag"
      /\ UNCHANGED <<phase, served, origin, head, image, container>>
  BY DEF Tag, outside, process, checkout
<1>2. line[s] \notin Over /\ "merge" \in Lines \ Over /\ "start" \in Over
  BY <1>1 DEF Over, Lines
<1>3. /\ s \in lock /\ old[s] = head /\ Steady(head) /\ new[s] \in 1..LastVersion
      /\ ScriptTypeOK /\ ProcessOfContainer
  BY <1>1, <1>2, RunStands DEF Stands, CanUndo, SInv
<1>4. ProcessOfContainer'
  BY <1>1, <1>3 DEF ProcessOfContainer
<1>5. CASE Exit(s, "start") /\ UNCHANGED <<rollback, lost>>
  <2>1. Steady(head)'
    BY <1>1, <1>3, <1>5 DEF Steady
  <2> QED BY <1>1, <1>2, <1>3, <1>4, <1>5, <2>1, ExitKeepsSInv DEF ScriptTypeOK
<1>6. ASSUME Proceed(s, "merge"),
             \/ image # None /\ rollback' = image /\ UNCHANGED lost
             \/ lost' = (IF image = None THEN lost ELSE lost \cup {"image"}) /\ UNCHANGED rollback
      PROVE  SInv'
  <2>1. line' = [line EXCEPT ![s] = "merge"] /\ UNCHANGED <<lock, old, new>>
    BY <1>6 DEF Proceed, Goto
  <2>2. ScriptTypeOK'
    BY <1>1, <1>2, <1>3, <1>6, <2>1 DEF ScriptTypeOK, Parts
  <2>3. line'[s] = "merge" /\ old'[s] = old[s] /\ new'[s] = new[s]
    BY <1>3, <2>1 DEF ScriptTypeOK
  <2>4. Stands(s)'
    BY <1>1, <1>3, <2>3 DEF Stands, ScriptTypeOK
  <2>5. None \notin served
    BY <1>3, NoneIsNoVersion DEF ScriptTypeOK
  <2>6. Steady(old[s])' /\ Kept(s)'
    <3>1. CASE image # None /\ rollback' = image /\ UNCHANGED lost
      BY <1>1, <1>3, <2>3, <3>1 DEF Steady, Kept
    <3>2. CASE image = None /\ UNCHANGED <<rollback, lost>>
      BY <1>1, <1>3, <2>3, <2>5, <3>2 DEF Steady, Kept
    <3>3. CASE image # None /\ lost' = lost \cup {"image"} /\ UNCHANGED rollback
      BY <3>3 DEF Steady, Kept
    <3> QED BY <1>6, <3>1, <3>2, <3>3
  <2>7. CanUndo(s)'
    BY <2>3, <2>6 DEF CanUndo
  <2> QED BY <1>2, <1>4, <1>6, <2>2, <2>4, <2>7, ProceedKeepsSInv
<1> QED BY <1>5, <1>6 DEF Tag

LEMMA MergeKeepsSInv ==
  ASSUME SInv, NEW s \in Scripts, Merge(s)
  PROVE  SInv'
PROOF
<1>1. /\ line[s] = "merge"
      /\ UNCHANGED <<phase, served, origin, image, rollback, container, lost>>
  BY DEF Merge, outside, process, docker
<1>2. /\ line[s] \notin Over /\ "config" \in Lines \ Over /\ "start" \in Over
      /\ line[s] \notin Over \cup {"fetch", "tag"}
  BY <1>1 DEF Over, Lines
<1>3. /\ s \in lock /\ old[s] = head /\ Steady(old[s]) /\ Kept(s) /\ new[s] \in 1..LastVersion
      /\ ScriptTypeOK /\ ProcessOfContainer
  BY <1>1, <1>2, RunStands DEF Stands, CanUndo, SInv
<1>4. ProcessOfContainer'
  BY <1>1, <1>3 DEF ProcessOfContainer
<1>5. CASE UNCHANGED head /\ Exit(s, "start")
  <2>1. Steady(head)'
    BY <1>1, <1>3, <1>5 DEF Steady
  <2> QED BY <1>1, <1>2, <1>3, <1>4, <1>5, <2>1, ExitKeepsSInv DEF ScriptTypeOK
<1>6. CASE head' = new[s] /\ Proceed(s, "config")
  <2>1. line' = [line EXCEPT ![s] = "config"] /\ UNCHANGED <<lock, old, new>>
    BY <1>6 DEF Proceed, Goto
  <2>2. ScriptTypeOK'
    BY <1>1, <1>2, <1>3, <1>6, <2>1 DEF ScriptTypeOK
  <2>3. line'[s] = "config" /\ old'[s] = old[s] /\ new'[s] = new[s]
    BY <1>3, <2>1 DEF ScriptTypeOK
  <2>4. Stands(s)'
    BY <1>3, <1>6, <2>3 DEF Stands, ScriptTypeOK
  <2>5. Steady(old[s])' /\ Kept(s)'
    BY <1>1, <1>3, <2>3 DEF Steady, Kept
  <2>6. CanUndo(s)'
    BY <2>3, <2>5 DEF CanUndo
  <2> QED BY <1>2, <1>4, <1>6, <2>2, <2>4, <2>6, ProceedKeepsSInv
<1> QED BY <1>5, <1>6 DEF Merge

\* A run that gives up before it builds goes back to the code it found.
LEMMA GiveUpKeepsSInv ==
  ASSUME SInv, NEW s \in Scripts, line[s] \in {"config", "build"}, GiveUp(s),
         UNCHANGED <<phase, served, origin, image, rollback, container>>
  PROVE  SInv'
PROOF
<1>1. line[s] \notin Over /\ "start" \in Over
  BY DEF Over
<1>2. /\ s \in lock /\ old[s] \in 1..LastVersion /\ Steady(old[s])
      /\ ScriptTypeOK /\ ProcessOfContainer
  BY <1>1, RunStands DEF CanUndo, SInv
<1>3. Exit(s, "start") /\ ResetCode(s)
  BY DEF GiveUp
<1>4. head' \in 1..LastVersion /\ lost' \subseteq Parts /\ UNCHANGED container
  BY <1>2, <1>3 DEF ResetCode, ScriptTypeOK, Parts
<1>5. ProcessOfContainer'
  BY <1>2 DEF ProcessOfContainer
<1>6. Steady(head)'
  BY <1>2, <1>3 DEF ResetCode, Steady
<1> QED BY <1>1, <1>2, <1>3, <1>4, <1>5, <1>6, ExitKeepsSInv DEF ScriptTypeOK

LEMMA ConfigKeepsSInv ==
  ASSUME SInv, NEW s \in Scripts, Config(s)
  PROVE  SInv'
PROOF
<1>1. /\ line[s] = "config"
      /\ UNCHANGED <<phase, served, origin, image, rollback, container>>
  BY DEF Config, outside, process, docker
<1>2. CASE GiveUp(s)
  BY <1>1, <1>2, GiveUpKeepsSInv
<1>3. CASE Proceed(s, "build") /\ UNCHANGED <<head, lost>>
  <2>1. line' = [line EXCEPT ![s] = "build"] /\ UNCHANGED <<lock, old, new>>
    BY <1>3 DEF Proceed, Goto
  <2>2. /\ line[s] \notin Over /\ "build" \in Lines \ Over
        /\ line[s] \notin Over \cup {"fetch", "tag"}
    BY <1>1 DEF Over, Lines
  <2>3. Stands(s) /\ CanUndo(s) /\ ScriptTypeOK /\ ProcessOfContainer
    BY <2>2, RunStands DEF SInv
  <2>4. ScriptTypeOK' /\ ProcessOfContainer'
    BY <1>1, <1>3, <2>1, <2>2, <2>3 DEF ScriptTypeOK, ProcessOfContainer
  <2>5. line'[s] = "build" /\ old'[s] = old[s] /\ new'[s] = new[s]
    BY <2>1, <2>3 DEF ScriptTypeOK
  <2>6. Stands(s)'
    BY <1>1, <1>3, <2>2, <2>3, <2>5 DEF Stands
  <2>7. Steady(old[s]) /\ Kept(s)
    BY <1>1, <2>2, <2>3 DEF CanUndo
  <2>8. Steady(old[s])' /\ Kept(s)'
    BY <1>1, <1>3, <2>5, <2>7 DEF Steady, Kept
  <2>9. CanUndo(s)'
    BY <2>5, <2>8 DEF CanUndo
  <2> QED BY <1>3, <2>2, <2>4, <2>6, <2>9, ProceedKeepsSInv
<1> QED BY <1>2, <1>3 DEF Config

LEMMA BuildKeepsSInv ==
  ASSUME SInv, NEW s \in Scripts, Build(s)
  PROVE  SInv'
PROOF
<1>1. /\ line[s] = "build"
      /\ UNCHANGED <<phase, served, origin, rollback, container>>
  BY DEF Build, outside, process
<1>2. CASE UNCHANGED image /\ GiveUp(s)
  BY <1>1, <1>2, GiveUpKeepsSInv
<1>3. CASE image' = head /\ Proceed(s, "up") /\ UNCHANGED <<head, lost>>
  <2>1. line' = [line EXCEPT ![s] = "up"] /\ UNCHANGED <<lock, old, new>>
    BY <1>3 DEF Proceed, Goto
  <2>2. /\ line[s] \notin Over /\ "up" \in Lines \ Over
        /\ line[s] \notin Over \cup {"fetch", "tag"}
    BY <1>1 DEF Over, Lines
  <2>3. Stands(s) /\ CanUndo(s) /\ ScriptTypeOK /\ ProcessOfContainer
    BY <2>2, RunStands DEF SInv
  <2>4. ScriptTypeOK' /\ ProcessOfContainer'
    BY <1>1, <1>3, <2>1, <2>2, <2>3, VersionsAreImages DEF ScriptTypeOK, ProcessOfContainer
  <2>5. line'[s] = "up" /\ old'[s] = old[s] /\ new'[s] = new[s]
    BY <2>1, <2>3 DEF ScriptTypeOK
  <2>6. Stands(s)'
    BY <1>1, <1>3, <2>2, <2>3, <2>5 DEF Stands
  <2>7. Kept(s)'
    BY <1>1, <1>3, <2>2, <2>3, <2>5 DEF CanUndo, Kept
  <2>8. CanUndo(s)'
    BY <2>5, <2>7 DEF CanUndo
  <2> QED BY <1>3, <2>2, <2>4, <2>6, <2>8, ProceedKeepsSInv
<1> QED BY <1>2, <1>3 DEF Build

LEMMA UpKeepsSInv ==
  ASSUME SInv, NEW s \in Scripts, Up(s)
  PROVE  SInv'
PROOF
<1>1. /\ line[s] = "up"
      /\ UNCHANGED <<served, origin, head, image, rollback, lost>>
  BY DEF Up, checkout
<1>2. /\ line[s] \notin Over /\ "health" \in Lines \ Over /\ "rollback" \in Lines \ Over
      /\ line[s] \notin Over \cup {"fetch", "tag"}
  BY <1>1 DEF Over, Lines
<1>3. Stands(s) /\ Kept(s) /\ ScriptTypeOK /\ ProcessOfContainer
  BY <1>2, RunStands DEF SInv, CanUndo
<1>4. image = head /\ image # None
  BY <1>1, <1>3, NoneIsNoVersion DEF Stands, ScriptTypeOK
<1>5. CASE Recreate /\ Proceed(s, "health")
  <2>1. line' = [line EXCEPT ![s] = "health"] /\ UNCHANGED <<lock, old, new>>
    BY <1>5 DEF Proceed, Goto
  <2>2. container' = image /\ phase' = "table"
    BY <1>5 DEF Recreate
  <2>3. ScriptTypeOK' /\ ProcessOfContainer'
    BY <1>1, <1>2, <1>3, <1>4, <2>1, <2>2 DEF ScriptTypeOK, ProcessOfContainer
  <2>4. line'[s] = "health" /\ old'[s] = old[s] /\ new'[s] = new[s]
    BY <1>3, <2>1 DEF ScriptTypeOK
  <2>5. Stands(s)'
    BY <1>1, <1>2, <1>3, <1>4, <2>2, <2>4 DEF Stands
  <2>6. CanUndo(s)'
    BY <1>1, <1>3, <2>4 DEF CanUndo, Kept
  <2> QED BY <1>2, <1>5, <2>3, <2>5, <2>6, ProceedKeepsSInv
<1>6. CASE RecreateFails /\ Proceed(s, "rollback")
  <2>1. line' = [line EXCEPT ![s] = "rollback"] /\ UNCHANGED <<lock, old, new>>
    BY <1>6 DEF Proceed, Goto
  <2>2. \/ container' = container /\ phase' = phase
        \/ container' \in {None, image} /\ phase' = "down"
    BY <1>6 DEF RecreateFails, process
  <2>3. ScriptTypeOK' /\ ProcessOfContainer'
    BY <1>1, <1>2, <1>3, <2>1, <2>2, NoneIsNoVersion DEF ScriptTypeOK, ProcessOfContainer
  <2>4. line'[s] = "rollback" /\ old'[s] = old[s] /\ new'[s] = new[s]
    BY <1>3, <2>1 DEF ScriptTypeOK
  <2>5. Stands(s)'
    BY <1>1, <1>2, <1>3, <1>4, <2>4 DEF Stands
  <2>6. CanUndo(s)'
    BY <1>1, <1>3, <2>4 DEF CanUndo, Kept
  <2> QED BY <1>2, <1>6, <2>3, <2>5, <2>6, ProceedKeepsSInv
<1> QED BY <1>5, <1>6 DEF Up

LEMMA HealthKeepsSInv ==
  ASSUME SInv, NEW s \in Scripts, Health(s)
  PROVE  SInv'
PROOF
<1>1. /\ line[s] = "health"
      /\ UNCHANGED <<phase, served, origin, head, image, rollback, container>>
  BY DEF Health, outside, process, checkout, docker
<1>2. /\ line[s] \notin Over /\ "succeeded" \in Over /\ "rollback" \in Lines \ Over
      /\ line[s] \notin Over \cup {"fetch", "tag"}
  BY <1>1 DEF Over, Lines
<1>3. s \in lock /\ Stands(s) /\ Kept(s) /\ ScriptTypeOK /\ ProcessOfContainer
  BY <1>2, RunStands DEF SInv, CanUndo
<1>4. ProcessOfContainer'
  BY <1>1, <1>3 DEF ProcessOfContainer
<1>5. CASE phase = "serving" /\ Exit(s, "succeeded") /\ lost' = {}
  <2>1. Steady(head)'
    BY <1>1, <1>3, <1>5 DEF Steady, Stands, ProcessOfContainer
  <2> QED BY <1>1, <1>2, <1>3, <1>4, <1>5, <2>1, ExitKeepsSInv DEF ScriptTypeOK
<1>6. CASE Proceed(s, "rollback") /\ UNCHANGED lost
  <2>1. line' = [line EXCEPT ![s] = "rollback"] /\ UNCHANGED <<lock, old, new>>
    BY <1>6 DEF Proceed, Goto
  <2>2. ScriptTypeOK'
    BY <1>1, <1>2, <1>3, <1>6, <2>1 DEF ScriptTypeOK
  <2>3. line'[s] = "rollback" /\ old'[s] = old[s]
    BY <1>3, <2>1 DEF ScriptTypeOK
  <2>4. Stands(s)'
    BY <1>1, <1>2, <1>3, <2>3, NoneIsNoVersion DEF Stands, ScriptTypeOK
  <2>5. CanUndo(s)'
    BY <1>1, <1>3, <1>6, <2>3 DEF CanUndo, Kept
  <2> QED BY <1>2, <1>4, <1>6, <2>2, <2>4, <2>5, ProceedKeepsSInv
<1> QED BY <1>5, <1>6 DEF Health

LEMMA RollbackCodeKeepsSInv ==
  ASSUME SInv, NEW s \in Scripts, RollbackCode(s)
  PROVE  SInv'
PROOF
<1>1. /\ line[s] = "rollback" /\ ResetCode(s) /\ Proceed(s, "find")
      /\ UNCHANGED <<phase, served, origin, image, rollback, container>>
  BY DEF RollbackCode, outside, process, docker
<1>2. /\ line[s] \notin Over /\ "find" \in Lines \ Over
      /\ line[s] \notin Over \cup {"fetch", "tag"}
  BY <1>1 DEF Over, Lines
<1>3. /\ Stands(s) /\ Kept(s) /\ old[s] \in 1..LastVersion
      /\ ScriptTypeOK /\ ProcessOfContainer
  BY <1>2, RunStands DEF SInv, CanUndo
<1>4. line' = [line EXCEPT ![s] = "find"] /\ UNCHANGED <<lock, old, new>>
  BY <1>1 DEF Proceed, Goto
<1>5. head' \in 1..LastVersion /\ lost' \subseteq Parts
  BY <1>1, <1>3 DEF ResetCode, ScriptTypeOK, Parts
<1>6. ScriptTypeOK' /\ ProcessOfContainer'
  BY <1>1, <1>2, <1>3, <1>4, <1>5 DEF ScriptTypeOK, ProcessOfContainer
<1>7. line'[s] = "find" /\ old'[s] = old[s]
  BY <1>3, <1>4 DEF ScriptTypeOK
<1>8. Stands(s)'
  BY <1>1, <1>2, <1>3, <1>7 DEF Stands
<1>9. Kept(s)' /\ ("code" \notin lost' => head' = old[s])
  BY <1>1, <1>3, <1>7 DEF ResetCode, Kept
<1>10. CanUndo(s)'
  BY <1>7, <1>9 DEF CanUndo
<1> QED BY <1>1, <1>2, <1>6, <1>8, <1>10, ProceedKeepsSInv

LEMMA FindImageKeepsSInv ==
  ASSUME SInv, NEW s \in Scripts, FindImage(s)
  PROVE  SInv'
PROOF
<1>1. /\ line[s] = "find"
      /\ UNCHANGED <<phase, served, origin, head, image, rollback, container>>
  BY DEF FindImage, outside, process, checkout, docker
<1>2. /\ line[s] \notin Over /\ "start" \in Over /\ "restore" \in Lines \ Over
      /\ line[s] \notin Over \cup {"fetch", "tag"}
  BY <1>1 DEF Over, Lines
<1>3. s \in lock /\ Stands(s) /\ CanUndo(s) /\ ScriptTypeOK /\ ProcessOfContainer
  BY <1>2, RunStands DEF SInv
<1>4. ProcessOfContainer'
  BY <1>1, <1>3 DEF ProcessOfContainer
<1>5. CASE Exit(s, "start") /\ lost' = lost \cup {"image"}
  <2>1. Steady(head)' /\ lost' \subseteq Parts
    BY <1>3, <1>5 DEF Steady, ScriptTypeOK, Parts
  <2> QED BY <1>1, <1>2, <1>3, <1>4, <1>5, <2>1, ExitKeepsSInv DEF ScriptTypeOK
<1>6. CASE rollback # None /\ Proceed(s, "restore") /\ UNCHANGED lost
  <2>1. line' = [line EXCEPT ![s] = "restore"] /\ UNCHANGED <<lock, old, new>>
    BY <1>6 DEF Proceed, Goto
  <2>2. ScriptTypeOK'
    BY <1>1, <1>2, <1>3, <1>6, <2>1 DEF ScriptTypeOK
  <2>3. line'[s] = "restore" /\ old'[s] = old[s]
    BY <1>3, <2>1 DEF ScriptTypeOK
  <2>4. Stands(s)'
    BY <1>1, <1>2, <1>3, <1>6, <2>3 DEF Stands
  <2>5. Kept(s) /\ ("code" \notin lost => head = old[s])
    BY <1>1, <1>2, <1>3 DEF CanUndo
  <2>6. CanUndo(s)'
    BY <1>1, <1>6, <2>3, <2>5 DEF CanUndo, Kept
  <2> QED BY <1>2, <1>4, <1>6, <2>2, <2>4, <2>6, ProceedKeepsSInv
<1> QED BY <1>5, <1>6 DEF FindImage

LEMMA RestoreImageKeepsSInv ==
  ASSUME SInv, NEW s \in Scripts, RestoreImage(s)
  PROVE  SInv'
PROOF
<1>1. /\ line[s] = "restore" /\ Proceed(s, "reup")
      /\ UNCHANGED <<phase, served, origin, head, rollback, container>>
      /\ \/ image' = rollback /\ lost' = lost
         \/ image' = image /\ lost' = lost \cup {"image"}
  BY DEF RestoreImage, outside, process, checkout
<1>2. /\ line[s] \notin Over /\ "reup" \in Lines \ Over
      /\ line[s] \notin Over \cup {"fetch", "tag"}
  BY <1>1 DEF Over, Lines
<1>3. /\ Stands(s) /\ CanUndo(s)
      /\ old[s] \in 1..LastVersion /\ ScriptTypeOK /\ ProcessOfContainer
  BY <1>2, RunStands DEF SInv
<1>4. line' = [line EXCEPT ![s] = "reup"] /\ UNCHANGED <<lock, old, new>>
  BY <1>1 DEF Proceed, Goto
<1>5. ScriptTypeOK' /\ ProcessOfContainer'
  BY <1>1, <1>2, <1>3, <1>4 DEF ScriptTypeOK, ProcessOfContainer, Parts
<1>6. line'[s] = "reup" /\ old'[s] = old[s]
  BY <1>3, <1>4 DEF ScriptTypeOK
<1>7. Stands(s)'
  BY <1>1, <1>3, <1>6 DEF Stands
<1>8. Kept(s) /\ ("code" \notin lost => head = old[s])
  BY <1>1, <1>2, <1>3 DEF CanUndo
<1>9. CanUndo(s)'
  BY <1>1, <1>6, <1>8 DEF CanUndo, Kept
<1> QED BY <1>1, <1>2, <1>5, <1>7, <1>9, ProceedKeepsSInv

LEMMA UpAgainKeepsSInv ==
  ASSUME SInv, NEW s \in Scripts, UpAgain(s)
  PROVE  SInv'
PROOF
<1>1. /\ line[s] = "reup" /\ Exit(s, "start")
      /\ UNCHANGED <<served, origin, head, image, rollback>>
      /\ \/ Recreate /\ lost' = lost
         \/ RecreateFails /\ lost' = lost \cup {"container"}
  BY DEF UpAgain, checkout
<1>2. /\ line[s] \notin Over /\ "start" \in Over
      /\ line[s] \notin Over \cup {"fetch", "tag"}
  BY <1>1 DEF Over
<1>3. s \in lock /\ Stands(s) /\ CanUndo(s) /\ ScriptTypeOK /\ ProcessOfContainer
  BY <1>2, RunStands DEF SInv
<1>4. /\ image # None /\ rollback # None
      /\ "image" \notin lost => image = rollback /\ rollback \in served
      /\ lost \cap {"code", "image"} = {} => head = old[s] /\ rollback = old[s]
  BY <1>1, <1>2, <1>3 DEF Stands, CanUndo, Kept
<1>5. CASE Recreate /\ lost' = lost
  <2>1. container' = image /\ phase' = "table"
    BY <1>5 DEF Recreate
  <2>2. ProcessOfContainer'
    BY <1>4, <2>1 DEF ProcessOfContainer
  <2>3. Steady(head)'
    BY <1>1, <1>4, <1>5, <2>1 DEF Steady
  <2> QED BY <1>1, <1>2, <1>3, <1>5, <2>1, <2>2, <2>3, ExitKeepsSInv DEF ScriptTypeOK
<1>6. CASE RecreateFails /\ lost' = lost \cup {"container"}
  <2>1. \/ container' = container /\ phase' = phase
        \/ container' \in {None, image} /\ phase' = "down"
    BY <1>6 DEF RecreateFails, process
  <2>2. ProcessOfContainer' /\ container' \in Images /\ lost' \subseteq Parts
    BY <1>1, <1>3, <1>6, <2>1, NoneIsNoVersion DEF ProcessOfContainer, ScriptTypeOK, Parts
  <2>3. Steady(head)'
    BY <1>1, <1>4, <1>6 DEF Steady
  <2> QED BY <1>1, <1>2, <1>3, <1>6, <2>2, <2>3, ExitKeepsSInv DEF ScriptTypeOK
<1> QED BY <1>1, <1>5, <1>6

LEMMA KilledKeepsSInv ==
  ASSUME SInv, NEW s \in Scripts, Killed(s)
  PROVE  SInv'
PROOF
<1>1. /\ s \in lock /\ Exit(s, "start") /\ lost' = lost \cup Changed(line[s])
      /\ UNCHANGED <<phase, served, origin, head, image, rollback, container>>
  BY DEF Killed, outside, process, checkout, docker
<1>2. "start" \in Over /\ ScriptTypeOK /\ ProcessOfContainer
  BY DEF Over, SInv
<1>3. ProcessOfContainer'
  BY <1>1, <1>2 DEF ProcessOfContainer
<1>4. Changed(line[s]) \subseteq Parts
  BY DEF Changed, Parts
<1>5. Stands(s) /\ CanUndo(s)
  BY DEF SInv
<1>6. Steady(head)'
  <2>1. CASE line[s] \in {"fetch", "tag", "merge"}
    BY <1>1, <1>5, <2>1 DEF Changed, Stands, CanUndo, Steady
  <2>2. CASE line[s] \in {"config", "build"}
    <3>1. Steady(old[s]) /\ lost' = lost \cup {"code"}
      BY <1>1, <1>5, <2>2 DEF Changed, CanUndo
    <3> QED BY <1>1, <3>1 DEF Steady
  <2>3. CASE line[s] \notin {"fetch", "tag", "merge", "config", "build"}
    BY <1>1, <2>3 DEF Changed, Parts, Steady
  <2> QED BY <2>1, <2>2, <2>3
<1> QED BY <1>1, <1>2, <1>3, <1>4, <1>6, ExitKeepsSInv DEF ScriptTypeOK

LEMMA ScriptKeepsSInv ==
  ASSUME SInv, NEW s \in Scripts, Script(s)
  PROVE  SInv'
PROOF
BY BeginKeepsSInv, FetchKeepsSInv, TagKeepsSInv, MergeKeepsSInv, ConfigKeepsSInv,
   BuildKeepsSInv, UpKeepsSInv, HealthKeepsSInv, RollbackCodeKeepsSInv,
   FindImageKeepsSInv, RestoreImageKeepsSInv, UpAgainKeepsSInv, KilledKeepsSInv DEF Script

-----------------------------------------------------------------------------
(* The system.                                                             *)

IInv == MInv /\ SInv

LEMMA InitIInv == Init => IInv
PROOF
<1> SUFFICES ASSUME Init PROVE IInv
  OBVIOUS
<1>1. MInv
  BY InitMInv DEF Init
<1>2. ScriptTypeOK
  <2>1. 1 \in 1..LastVersion
    BY DeploymentAssumption
  <2> QED BY <2>1, NoneIsNoVersion DEF Init, ScriptTypeOK, Lines
<1>3. Locked /\ ProcessOfContainer /\ Steady(head)
  BY DEF Init, MigrationInit, Locked, Over, ProcessOfContainer, Steady
<1>4. \A s \in Scripts : Stands(s) /\ CanUndo(s)
  BY DEF Init, Stands, CanUndo, Over
<1> QED BY <1>1, <1>2, <1>3, <1>4 DEF IInv, SInv

LEMMA VersionOfTyped == \A img : VersionOf(img) \in Versions
PROOF
BY DEF VersionOf, Versions

LEMMA ScriptKeepsMInv ==
  ASSUME MInv, NEW s \in Scripts, Script(s)
  PROVE  MInv' /\ UNCHANGED rows
PROOF
<1>1. UNCHANGED <<database, player>>
  BY DEF Script, Begin, Fetch, Tag, Merge, Config, Build, Up, Health, RollbackCode,
         FindImage, RestoreImage, UpAgain, Killed, outside
<1>2. \/ UNCHANGED process
      \/ phase' \in {"table", "down"} /\ version' \in Versions
  <2>1. version \in Versions
    BY DEF MInv, MigrationTypeOK
  <2>2. CASE Up(s) \/ UpAgain(s)
    BY <2>1, <2>2, VersionOfTyped DEF Up, UpAgain, Recreate, RecreateFails
  <2>3. CASE ~(Up(s) \/ UpAgain(s))
    BY <2>3 DEF Script, Begin, Fetch, Tag, Merge, Config, Build, Health, RollbackCode,
                FindImage, RestoreImage, Killed, outside
  <2> QED BY <2>2, <2>3
<1> QED BY <1>1, <1>2, OutsideKeepsMInv DEF database

LEMMA ProcessKeepsIInv ==
  ASSUME IInv, Process
  PROVE  IInv'
PROOF
<1>1. MInv'
  BY ProcessKeepsMInv DEF IInv, Process
<1>2. /\ UNCHANGED <<origin, head, docker, script, lost>>
      /\ served' = IF phase' = "serving" THEN served \cup {container} ELSE served
  BY DEF Process, others, checkout
<1>3. phase # "down"
  BY DEF Process, Start, Crash, CreateTable, EnsureTaskEventColumn, UpdateTaskEvents,
         MergeTaskTypes, Following
<1>4. /\ container # None /\ container \in Images /\ served \subseteq 1..LastVersion
      /\ origin \in 1..LastVersion
  BY <1>3 DEF IInv, SInv, ProcessOfContainer, ScriptTypeOK
<1>5. container \in 1..LastVersion
  BY <1>4, DeploymentAssumption DEF Images, None
<1>6. SInv'
  BY <1>2, <1>4, <1>5, OutsideKeepsSInv DEF IInv
<1> QED BY <1>1, <1>6 DEF IInv

LEMMA NextKeepsIInv == IInv /\ [Next]_vars => IInv'
PROOF
<1> SUFFICES ASSUME IInv, [Next]_vars PROVE IInv'
  OBVIOUS
<1> USE DEF IInv
<1>1. /\ origin \in 1..LastVersion /\ served \subseteq 1..LastVersion
      /\ ProcessOfContainer
  BY DEF SInv, ScriptTypeOK
<1>2. ASSUME NEW s \in Scripts, Script(s) PROVE IInv'
  BY <1>2, ScriptKeepsMInv, ScriptKeepsSInv
<1>3. CASE Push
  <2>1. UNCHANGED <<process, database, player, served, head, docker, script, lost>>
    BY <1>3 DEF Push, outside
  <2>2. origin' \in 1..LastVersion
    BY <1>1, <1>3, DeploymentAssumption DEF Push
  <2>3. UNCHANGED <<phase, container>>
    BY <2>1 DEF process, docker
  <2>4. MInv'
    BY <2>1, OutsideKeepsMInv
  <2>5. SInv'
    BY <1>1, <2>1, <2>2, <2>3, OutsideKeepsSInv DEF ProcessOfContainer
  <2> QED BY <2>4, <2>5
<1>4. CASE Restart
  <2>1. /\ phase' = "table" /\ version' \in Versions /\ container # None
        /\ UNCHANGED <<database, player, served, origin, head, docker, script, lost>>
    BY <1>4, VersionOfTyped DEF Restart, Launch, others, checkout
  <2>2. MInv'
    BY <2>1, OutsideKeepsMInv
  <2>3. SInv'
    BY <1>1, <2>1, OutsideKeepsSInv
  <2> QED BY <2>2, <2>3
<1>5. CASE Process
  BY <1>5, ProcessKeepsIInv
<1>6. CASE Players
  <2>1. /\ Player /\ UNCHANGED <<served, origin, head, docker, script, lost>>
        /\ UNCHANGED process
    BY <1>6 DEF Players, Player, RecordEarlier, Record, ReloadPage, Mutate, Post,
                others, checkout
  <2>2. UNCHANGED <<phase, container>>
    BY <2>1 DEF process, docker
  <2>3. MInv'
    BY <2>1, PlayerKeepsMInv
  <2>4. SInv'
    BY <1>1, <2>1, <2>2, OutsideKeepsSInv DEF ProcessOfContainer
  <2> QED BY <2>3, <2>4
<1>7. CASE UNCHANGED vars
  <2>1. UNCHANGED <<process, database, player, served, origin, head, docker, script, lost>>
    BY <1>7 DEF vars, checkout
  <2>2. UNCHANGED <<phase, container>>
    BY <2>1 DEF process, docker
  <2>3. MInv'
    BY <2>1, OutsideKeepsMInv
  <2>4. SInv'
    BY <1>1, <2>1, <2>2, OutsideKeepsSInv DEF ProcessOfContainer
  <2> QED BY <2>3, <2>4
<1> QED BY <1>2, <1>3, <1>4, <1>5, <1>6, <1>7 DEF Next

LEMMA Invariant == Spec => []IInv
PROOF
<1> QED BY InitIInv, NextKeepsIInv, PTL DEF Spec

\* The type invariant, for any number of runs and versions and any reports.
THEOREM Typed == Spec => []TypeOK
PROOF
<1>1. IInv => TypeOK
  BY DEF IInv, MInv, SInv, ScriptTypeOK, TypeOK
<1> QED BY <1>1, Invariant, PTL

\* While the present server answers, the row of a ring is what the page shows
\* and what the present server would have stored: however often a start was
\* cut off, and whichever page and server reported the ring.
THEOREM RowsStayTranslated == Spec => []RowsTranslated
PROOF
<1>1. IInv => RowsTranslated
  BY MInvImpliesRowsTranslated DEF IInv
<1> QED BY <1>1, Invariant, PTL

\* The UPDATEs of a start, and a server that is up, find their columns.
THEOREM ColumnsStayComplete == Spec => []ColumnsComplete
PROOF
<1>1. IInv => ColumnsComplete
  BY DEF IInv, MInv, ColumnsGrow
<1> QED BY <1>1, Invariant, PTL

\* Between runs code and image are of one revision, and the container is of
\* the image, but for what was lost since the last success.
THEOREM IdleStaysConsistent == Spec => []IdleConsistent
PROOF
<1>1. IInv => IdleConsistent
  BY DEF IInv, SInv, Steady, IdleConsistent
<1> QED BY <1>1, Invariant, PTL

\* The image a rollback brings back has served, unless one was lost since the
\* last success.
THEOREM RollbackToServed == Spec => []RollbackImageServed
PROOF
<1>1. IInv => RollbackImageServed
  <2> SUFFICES ASSUME IInv, "image" \notin lost, NEW s \in Scripts, line[s] = "restore"
               PROVE  rollback \in served
    BY DEF RollbackImageServed
  <2>1. Stands(s) /\ CanUndo(s)
    BY DEF IInv, SInv
  <2> QED BY <2>1 DEF Stands, CanUndo, Kept, Over
<1> QED BY <1>1, Invariant, PTL

\* No start of the server changes a row that is right.
THEOREM SettledRowsStayKept == Spec => SettledRowsKept
PROOF
<1>1. IInv /\ [Next]_vars =>
        [\A row \in rows : Settled(row) => row \in rows']_<<process, database, player>>
  <2> SUFFICES ASSUME IInv, [Next]_vars, NEW row \in rows, Settled(row)
               PROVE  row \in rows'
    OBVIOUS
  <2>1. CASE \E s \in Scripts : Script(s)
    BY <2>1, ScriptKeepsMInv DEF IInv
  <2>2. CASE Push \/ Restart
    BY <2>2 DEF Push, Restart, Launch, outside, database
  <2>3. CASE Process \/ Players
    BY <2>3, SettledRowsStay DEF IInv, Process, Players
  <2>4. CASE UNCHANGED vars
    BY <2>4 DEF vars, database
  <2> QED BY <2>1, <2>2, <2>3, <2>4 DEF Next
<1> QED BY <1>1, Invariant, PTL DEF Spec, SettledRowsKept

\* What a run of the script reports is true, however many others are started.
THEOREM SuccessIsTrue == Spec => SuccessMeansDeployed
PROOF
<1> DEFINE Claim(s) == /\ phase = "serving"
                       /\ head = new[s] /\ image = new[s] /\ container = new[s]
<1>1. IInv /\ [Next]_vars =>
        [\A s \in Scripts : line'[s] = "succeeded" /\ line[s] # "succeeded" => Claim(s)]_vars
  <2> SUFFICES ASSUME IInv, [Next]_vars, NEW s \in Scripts,
                      line'[s] = "succeeded", line[s] # "succeeded"
               PROVE  Claim(s)
    OBVIOUS
  <2>1. line' # line /\ line \in [Scripts -> Lines]
    BY DEF IInv, SInv, ScriptTypeOK
  <2>2. PICK t \in Scripts : Script(t)
    BY <2>1 DEF Next, Push, Restart, Process, Players, others, script, vars
  <2>3. PICK next \in Lines : line' = [line EXCEPT ![t] = next] /\ (next = "succeeded" => Health(t))
    BY <2>2 DEF Script, Begin, Fetch, Tag, Merge, Config, Build, Up, Health, RollbackCode,
                FindImage, RestoreImage, UpAgain, Killed, GiveUp, Proceed, Exit, Goto, Lines
  <2>4. t = s /\ next = "succeeded"
    BY <2>1, <2>3
  <2>5. Health(s)
    BY <2>3, <2>4
  <2>6. line[s] = "health" /\ phase = "serving"
    BY <2>1, <2>3, <2>4, <2>5 DEF Health, Proceed, Goto
  <2> QED BY <2>6 DEF IInv, SInv, Stands
<1> QED BY <1>1, Invariant, PTL DEF Spec, SuccessMeansDeployed
=============================================================================
