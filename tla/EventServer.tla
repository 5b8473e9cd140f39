---------------------------- MODULE EventServer ----------------------------
(***************************************************************************)
(* src/internal/httpapi/api.go over src/internal/store/sqlite.go: the      *)
(* three event handlers.  A handler decodes and validates, asks the rate   *)
(* limiter, and runs one SQL statement; the single connection              *)
(* (SetMaxOpenConns(1)) makes that statement the only step other requests  *)
(* can see.  Each action takes the request and the status it is answered   *)
(* with.  All requests come from one device: its hash always matches.      *)
(***************************************************************************)
EXTENDS Events, FiniteSets

CONSTANT DeleteBatchLimit   \* ids one DELETE may name; 100 in the code

ASSUME DeleteBatchAssumption == DeleteBatchLimit \in Nat \ {0}

VARIABLES tasks,    \* rows of task_events
          rewards   \* rows of reward_events

serverVars == <<tasks, rewards>>

\* 2xx, 409, 400, 429 and 5xx.
Statuses == {"ok", "duplicate", "rejected", "busy", "error"}

ServerInit == tasks = {} /\ rewards = {}

ValidTask(event) == event.result.whole /\ event.ringNumber \in 1..LastRing

ValidDelete(event) == Cardinality(event.eventIds) \in 1..DeleteBatchLimit

ValidReward(event) == event.inRange

\* The CHECK constraint on task_events.score, which no handler looks at.
Storable(event) == event.result.score \in -100..100

TaskRow(event) ==
  [id |-> event.id, ringNumber |-> event.ringNumber, result |-> event.result]

RewardRow(event) == [id |-> event.id]

TaskEvent(event, status) ==
  \/ /\ status = "rejected"
     /\ ~ValidTask(event)
     /\ UNCHANGED serverVars
  \/ /\ status \in {"busy", "error"}
     /\ ValidTask(event)
     /\ UNCHANGED serverVars
  \/ /\ status = "duplicate"
     /\ ValidTask(event)
     /\ event.id \in IdsOf(tasks)
     /\ UNCHANGED serverVars
  \/ /\ status = "ok"
     /\ ValidTask(event)
     /\ Storable(event)
     /\ event.id \notin IdsOf(tasks)
     /\ tasks' = tasks \cup {TaskRow(event)}
     /\ UNCHANGED rewards

\* Slip: every row of the device goes, not only those named.
DeleteTaskEventsOfDevice(event, status) ==
  /\ status = "ok"
  /\ ValidDelete(event)
  /\ tasks' = {}
  /\ UNCHANGED rewards

DeleteTaskEvents(event, status) ==
  \/ /\ status = "rejected"
     /\ ~ValidDelete(event)
     /\ UNCHANGED serverVars
  \/ /\ status \in {"busy", "error"}
     /\ ValidDelete(event)
     /\ UNCHANGED serverVars
  \/ /\ status = "ok"
     /\ ValidDelete(event)
     /\ tasks' = {row \in tasks : row.id \notin event.eventIds}
     /\ UNCHANGED rewards

RewardEvent(event, status) ==
  \/ /\ status = "rejected"
     /\ ~ValidReward(event)
     /\ UNCHANGED serverVars
  \/ /\ status \in {"busy", "error"}
     /\ ValidReward(event)
     /\ UNCHANGED serverVars
  \/ /\ status = "duplicate"
     /\ ValidReward(event)
     /\ event.id \in IdsOf(rewards)
     /\ UNCHANGED serverVars
  \/ /\ status = "ok"
     /\ ValidReward(event)
     /\ event.id \notin IdsOf(rewards)
     /\ rewards' = rewards \cup {RewardRow(event)}
     /\ UNCHANGED tasks

Handle(event, status) ==
  \/ event.kind = "task" /\ TaskEvent(event, status)
  \/ event.kind = "task_delete" /\ DeleteTaskEvents(event, status)
  \/ event.kind = "reward" /\ RewardEvent(event, status)
=============================================================================
