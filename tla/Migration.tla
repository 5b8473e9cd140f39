----------------------------- MODULE Migration -----------------------------
(***************************************************************************)
(* The server process over its database file: a start brings the table to  *)
(* its present shape statement by statement (src/internal/store/sqlite.go, *)
(* initialize) and may be cut off between any two; an earlier version of   *)
(* the server, brought back by a rollback, writes into the migrated table; *)
(* and the page that reports one ring is of the earlier version at first,  *)
(* with its record and its waiting sample in the old form.                 *)
(*                                                                         *)
(* The migration looks at every row by itself, so one ring stands for all. *)
(* The earlier versions are not in the repository: what they do is what    *)
(* the migration and its tests say of them (sqlite_test.go:126-190).       *)
(***************************************************************************)
EXTENDS Records

CONSTANT Reports   \* how the ring may have ended: [task, resolution, q]

ASSUME MigrationAssumption ==
  /\ Reports \subseteq [task : Tasks, resolution : Resolutions,
                        q : Qualities \cup {NoQualities}]
  /\ \A report \in Reports :
       StoredScores(report.task, report.resolution, report.q) # {}

VARIABLES
  phase,     \* where the server process is in its start, or "serving", or "down"
  version,   \* of the process: "earlier" or "present"
  columns,   \* of task_events; none before the table exists
  rows,      \* the ring's row
  page,      \* version of the page
  entry,     \* the ring in localStorage
  outbox,    \* the ring's sample, while it waits
  reported   \* history: the report, once made

process  == <<phase, version>>
database == <<columns, rows>>
player   == <<page, entry, outbox, reported>>

Versions == {"earlier", "present"}
Phases   == {"down", "table", "resolution", "requested_score", "update", "merge", "serving"}

BaseColumns == {"task_type", "score"}
AllColumns  == BaseColumns \cup {"resolution", "requested_score"}

-----------------------------------------------------------------------------
(* Open and initialize.                                                    *)

Launch(v) ==
  /\ phase = "down"
  /\ phase' = "table" /\ version' = v
  /\ UNCHANGED <<database, player>>

\* The process ends, whatever it was doing.
Crash ==
  /\ phase # "down"
  /\ phase' = "down"
  /\ UNCHANGED <<version, database, player>>

\* CREATE TABLE IF NOT EXISTS.  An earlier version has nothing else to do.
CreateTable ==
  /\ phase = "table"
  /\ columns' = IF columns # {} THEN columns
                ELSE IF version = "present" THEN AllColumns ELSE BaseColumns
  /\ phase' = IF version = "present" THEN "resolution" ELSE "serving"
  /\ UNCHANGED <<version, rows, player>>

Following == [resolution |-> "requested_score", requested_score |-> "update"]

\* Slip: a table with a column more than it had at first counts as migrated.
EnsureNothingMissing(name) ==
  /\ phase = name
  /\ columns' = IF columns # BaseColumns THEN columns ELSE columns \cup {name}
  /\ phase' = Following[name]
  /\ UNCHANGED <<version, rows, player>>

\* The rows there are get the default, which is what they have here already.
EnsureTaskEventColumn(name) ==
  /\ phase = name
  /\ columns' = columns \cup {name}
  /\ phase' = Following[name]
  /\ UNCHANGED <<version, rows, player>>

\* Slips: the type is set before the resolution is made out of it; a requested
\* score that is not the score counts as missing.
MigratedTypeFirst(row) ==
  [row EXCEPT
    !.taskType = IF row.taskType \in EndedMutants THEN "mutant_specific" ELSE row.taskType,
    !.requested = IF row.taskType \in EndedMutants \cup {"mutant_specific"} THEN 10
                  ELSE IF row.requested = 0 THEN row.score ELSE row.requested]
MigratedAnew(row) ==
  [row EXCEPT
    !.resolution = CASE row.taskType = "mutant_unspecified"   -> "mutant_unspecified"
                     [] row.taskType = "normal_pet_as_mutant" -> "normal_pet"
                     [] row.taskType \notin EndedMutants      -> row.resolution,
    !.taskType = IF row.taskType \in EndedMutants THEN "mutant_specific" ELSE row.taskType,
    !.requested = IF row.taskType \in EndedMutants \cup {"mutant_specific"} THEN 10
                  ELSE row.score]

\* What UPDATE task_events SET ... makes of a row: every right side is of the
\* row as it was.
Migrated(row) ==
  [row EXCEPT
    !.resolution = CASE row.taskType = "mutant_unspecified"   -> "mutant_unspecified"
                     [] row.taskType = "normal_pet_as_mutant" -> "normal_pet"
                     [] row.taskType \notin EndedMutants      -> row.resolution,
    !.taskType = IF row.taskType \in EndedMutants THEN "mutant_specific" ELSE row.taskType,
    !.requested = IF row.taskType \in EndedMutants \cup {"mutant_specific"} THEN 10
                  ELSE IF row.requested = 0 THEN row.score ELSE row.requested]

UpdateTaskEvents ==
  /\ phase = "update"
  /\ rows' = {Migrated(row) : row \in rows}
  /\ phase' = "merge"
  /\ UNCHANGED <<version, columns, player>>

\* The second UPDATE; then the server listens.
MergeTaskTypes ==
  /\ phase = "merge"
  /\ rows' = {[row EXCEPT !.taskType = NormalizeTaskType(@)] : row \in rows}
  /\ phase' = "serving"
  /\ UNCHANGED <<version, columns, player>>

Start ==
  \/ CreateTable
  \/ \E name \in DOMAIN Following : EnsureTaskEventColumn(name)
  \/ UpdateTaskEvents
  \/ MergeTaskTypes

-----------------------------------------------------------------------------
(* The player.                                                             *)

\* What an earlier page calls a task, by the way it ended.
EarlierTaskTypes(report) ==
  CASE report.resolution = "mutant_unspecified" -> {"mutant_unspecified"}
    [] report.resolution = "normal_pet"         -> {"normal_pet_as_mutant"}
    [] report.resolution = "fulfilled"          ->
         IF report.task = "flower_instrument" THEN MergedTaskTypes ELSE {report.task}

\* It asked for the qualities of every task that has some.
RecordEarlier(report) ==
  /\ page = "earlier" /\ reported = {}
  /\ report.resolution \notin {"skipped", "quality_below"}
  /\ Given(report.q) <=> report.task \in PageNeedsQuality
  /\ \E taskType \in EarlierTaskTypes(report) :
       /\ entry' = {[requestedTaskType |-> Absent, taskType |-> taskType,
                     resolution |-> Absent]}
       /\ outbox' = {[taskType |-> taskType, resolution |-> Absent, q |-> report.q]}
  /\ reported' = {report}
  /\ UNCHANGED <<page, process, database>>

\* addEntry
Record(report) ==
  /\ page = "present" /\ reported = {}
  /\ Given(report.q) <=> report.resolution = "quality_below"
  /\ entry' = {[requestedTaskType |-> report.task, taskType |-> Absent,
                resolution |-> report.resolution]}
  /\ outbox' = {[taskType |-> report.task, resolution |-> report.resolution, q |-> report.q]}
  /\ reported' = {report}
  /\ UNCHANGED <<page, process, database>>

\* The page is fetched again, from a present server.
ReloadPage ==
  /\ phase = "serving" /\ version = "present"
  /\ page = "earlier"
  /\ page' = "present"
  /\ UNCHANGED <<entry, outbox, reported, process, database>>

\* Any operation of the repository: it loads, and saves what it loaded.
Mutate ==
  /\ page = "present"
  /\ entry' = {NormalizeEntry(e) : e \in entry}
  /\ outbox' = {NormalizePendingEvent(event) : event \in outbox}
  /\ UNCHANGED <<page, reported, process, database>>

\* What the page sends, of an event in its outbox.
Sent(event) == IF page = "present" THEN NormalizePendingEvent(event) ELSE event

EarlierRow(event, report) ==
  [taskType |-> event.taskType, resolution |-> "fulfilled", requested |-> 0,
   score |-> CHOOSE score \in ServerScores(report.task, report.resolution, report.q) : TRUE]

Row(event) ==
  LET resolution == Or(event.resolution, "fulfilled") IN
  [taskType |-> event.taskType, resolution |-> resolution,
   requested |-> CHOOSE score \in RequestedTaskScore(event.taskType, event.q) : TRUE,
   score |-> CHOOSE score \in ServerScores(event.taskType, resolution, event.q) : TRUE]

Accepted(event) ==
  /\ event.taskType \in Tasks
  /\ StoredScores(event.taskType, Or(event.resolution, "fulfilled"), event.q) # {}

\* A POST, whose answer may be lost: then the event stays in the outbox.  What
\* an earlier server makes of a present page's events is not known.
Post(event) ==
  LET body == Sent(event) IN
  /\ phase = "serving"
  /\ page = version \/ version = "present"
  /\ rows' = IF rows # {} THEN rows
             ELSE IF version = "earlier"
                  THEN {EarlierRow(body, report) : report \in reported}
             ELSE IF Accepted(body) THEN {Row(body)} ELSE {}
  /\ outbox' \in {outbox, {}}
  /\ UNCHANGED <<columns, page, entry, reported, process>>

Player ==
  \/ \E report \in Reports : RecordEarlier(report) \/ Record(report)
  \/ ReloadPage
  \/ Mutate
  \/ \E event \in outbox : Post(event)

MigrationInit ==
  /\ phase = "down" /\ version = "earlier"
  /\ columns = {} /\ rows = {}
  /\ page = "earlier" /\ entry = {} /\ outbox = {} /\ reported = {}

-----------------------------------------------------------------------------
(* Safety.                                                                 *)

DatabaseRow ==
  [taskType : TaskTypes, resolution : Resolutions, requested : Int, score : Int]

MigrationTypeOK ==
  /\ phase \in Phases /\ version \in Versions /\ page \in Versions
  /\ columns \in {{}, BaseColumns, BaseColumns \cup {"resolution"}, AllColumns}
  /\ rows \subseteq DatabaseRow
  /\ entry \subseteq EntryRecord
  /\ outbox \subseteq [taskType : TaskTypes, resolution : Resolutions \cup {Absent},
                       q : {report.q : report \in Reports}]
  /\ reported \subseteq Reports

\* The row says of the ring what the present page shows of its own record, and
\* what the present server would have stored for the report.
Settled(row) ==
  \A report \in reported : \A record \in entry :
    /\ row.taskType = NormalizeEntry(record).requestedTaskType
    /\ row.taskType = CountedAs(record)
    /\ row.resolution = NormalizeEntry(record).resolution
    /\ row.requested \in RequestedTaskScore(row.taskType, report.q)
    /\ row.score \in ServerScores(row.taskType, row.resolution, report.q)

\* While the present server answers, every row is settled: whichever page and
\* server reported the ring, in whatever form it waited, and wherever earlier
\* starts were cut off (sqlite.go:80-101, storage.mjs:157-182).
RowsTranslated ==
  phase = "serving" /\ version = "present" => \A row \in rows : Settled(row)

\* A settled row stays as it is: the migration runs at every start and finds
\* nothing to do in it, even where a requested score is zero (sqlite.go:91-95).
SettledRowsKept ==
  [][\A row \in rows : Settled(row) => row \in rows']_<<process, database, player>>

\* The statements find their columns, wherever earlier starts were cut off
\* between adding them: the UPDATEs of a start, and what a server that is up
\* does, which for an earlier one needs the first columns only
\* (sqlite.go:74-79, 107-133).
ColumnsComplete ==
  /\ phase \in {"update", "merge"} => columns = AllColumns
  /\ phase = "serving" =>
       IF version = "present" THEN columns = AllColumns ELSE BaseColumns \subseteq columns
=============================================================================
