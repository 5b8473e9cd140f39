------------------------------ MODULE Records ------------------------------
(***************************************************************************)
(* Rings recorded by earlier versions of the page, and what the present    *)
(* one makes of them each time it loads its state (src/web/storage.mjs).   *)
(* Earlier versions wrote the requested task and the way it ended into one *)
(* field, taskType, and had two tasks for what is one today.               *)
(***************************************************************************)
EXTENDS TaskRules

Absent == "absent"   \* a field that is not there

MergedTaskTypes == {"flower", "instrument"}

EndedMutants == {"mutant_unspecified", "normal_pet_as_mutant"}

TaskTypes == Tasks \cup MergedTaskTypes \cup EndedMutants

\* What a ring can look like in localStorage: as written or loaded since the
\* fields are two, or before.
EntryRecord ==
  [requestedTaskType : Tasks \cup MergedTaskTypes, taskType : TaskTypes \cup {Absent},
   resolution : Resolutions \cup {Absent}]
    \cup
  [requestedTaskType : {Absent}, taskType : TaskTypes, resolution : {Absent}]

NormalizeTaskType(taskType) ==
  IF taskType \in MergedTaskTypes THEN "flower_instrument" ELSE taskType

\* a || b
Or(a, b) == IF a # Absent THEN a ELSE b

\* Slip: only records without a resolution are taken for old ones.
NormalizeEntryByResolution(entry) ==
  [entry EXCEPT
    !.requestedTaskType = NormalizeTaskType(Or(entry.requestedTaskType, entry.taskType)),
    !.resolution = Or(entry.resolution, "fulfilled")]

NormalizeEntry(entry) ==
  LET ended == entry.requestedTaskType = Absent /\ entry.taskType \in EndedMutants IN
  [entry EXCEPT
    !.requestedTaskType =
      IF ended THEN "mutant_specific"
      ELSE NormalizeTaskType(Or(entry.requestedTaskType, entry.taskType)),
    !.resolution =
      CASE ended /\ entry.taskType = "mutant_unspecified"   -> "mutant_unspecified"
        [] ended /\ entry.taskType = "normal_pet_as_mutant" -> "normal_pet"
        [] ~ended -> Or(entry.resolution, "fulfilled")]

\* Of a sample that waits in the outbox; its qualities stay.
NormalizePendingEvent(event) ==
  LET entry == NormalizeEntry([requestedTaskType |-> Absent, taskType |-> event.taskType,
                               resolution |-> event.resolution])
  IN [event EXCEPT !.taskType = entry.requestedTaskType, !.resolution = entry.resolution]

\* taskDistribution: the task a ring counts for in the statistics, which
\* normalise for themselves.
CountedAs(entry) ==
  LET taskType == Or(entry.requestedTaskType, entry.taskType) IN
  CASE taskType \in MergedTaskTypes -> "flower_instrument"
    [] taskType \in EndedMutants    -> "mutant_specific"
    [] taskType \notin MergedTaskTypes \cup EndedMutants -> taskType

\* Of an old price list: a merged task costs what one of its parts did.
NormalizeTaskPrices(prices) ==
  LET PriceOr(name, otherwise) ==
        IF name \in DOMAIN prices THEN prices[name] ELSE otherwise
  IN
  [name \in (DOMAIN prices \ MergedTaskTypes) \cup {"flower_instrument"} |->
     IF name # "flower_instrument" THEN prices[name]
     ELSE PriceOr("flower_instrument", PriceOr("flower", PriceOr("instrument", 0)))]
=============================================================================
