------------------------------ MODULE EntryForm ------------------------------
(***************************************************************************)
(* The form a ring is recorded with (src/web/app.mjs): the selected task   *)
(* and the selected resolution, module variables that outlive every        *)
(* render; the two quality fields, which keep what was typed while other   *)
(* tasks are looked at; and the cycle's score, on which it depends what    *)
(* may be selected.  One tab; every action ends with a render.  The        *)
(* initial ring, which only makes the cycle shorter, is left out.          *)
(***************************************************************************)
EXTENDS TaskRules, Sequences, Functions

CONSTANTS
  LastRing,      \* rings of one cycle; 100 in the code
  TaskTypes,     \* the tasks the user meets
  Drafts,        \* what is typed into the quality fields
  Scores         \* what is typed into the initial-score field

ASSUME FormAssumption ==
  /\ LastRing \in Nat \ {0}
  /\ TaskTypes \subseteq Tasks
  /\ Drafts \subseteq Qualities
  /\ Scores \subseteq Int

VARIABLES
  selectedTask,
  selectedResolution,
  draft,          \* the quality fields, 0 when empty
  initialScore,
  entries         \* the cycle, with the part of each sample that is scored

vars == <<selectedTask, selectedResolution, draft, initialScore, entries>>

\* emptyEntryDraft: empty fields, which Number reads as 0.
EmptyDraft == [required |-> 0, actual |-> 0]

\* currentTotals().score
TotalScore(score, ledger) ==
  FoldFunction(LAMBDA x, total : x.score + total, score, ledger)

\* Slip: a selection the score no longer allows stays.
RenderOffered(task, resolution, total) ==
  selectedResolution' =
    IF resolution \in ResolutionsForTask(task) THEN resolution ELSE "fulfilled"

\* renderResolutionOptions: what cannot be selected any more falls back.
RenderResolutionOptions(task, resolution, total) ==
  selectedResolution' =
    IF resolution \in ResolutionsForTask(task) /\ CanChooseResolution(resolution, total)
    THEN resolution ELSE "fulfilled"

\* The end of every handler that changes the cycle: refresh.
Refresh == RenderResolutionOptions(selectedTask, selectedResolution,
                                   TotalScore(initialScore', entries'))

Total == TotalScore(initialScore, entries)

ChooseTask(task) ==
  /\ selectedTask' = task
  /\ RenderResolutionOptions(task, "fulfilled", Total)
  /\ UNCHANGED <<draft, initialScore, entries>>

\* Of the options that are not disabled.
ChooseResolution(resolution) ==
  /\ resolution \in ResolutionsForTask(selectedTask)
  /\ CanChooseResolution(resolution, Total)
  /\ RenderResolutionOptions(selectedTask, resolution, Total)
  /\ UNCHANGED <<selectedTask, draft, initialScore, entries>>

\* The fields are hidden unless they are asked for.
AsksQuality(task, resolution) ==
  task \in PageNeedsQuality /\ resolution = "quality_below"

TypeQualities(typed) ==
  /\ AsksQuality(selectedTask, selectedResolution)
  /\ draft' = typed
  /\ UNCHANGED <<selectedTask, selectedResolution, initialScore, entries>>

\* Slip: the fields are read for every resolution of a task that has them.
ReadForTask(task, resolution) ==
  IF task \in PageNeedsQuality THEN draft ELSE NoQualities

\* The qualities addEntry scores with, and puts into the sample.
QualitiesRead(task, resolution) ==
  IF AsksQuality(task, resolution) THEN draft ELSE NoQualities

\* Slip: one ring too many.
CycleOpenLate == Len(entries) <= LastRing

CycleOpen == Len(entries) < LastRing

AddEntry ==
  LET q == QualitiesRead(selectedTask, selectedResolution) IN
  /\ CycleOpen
  /\ CanChooseResolution(selectedResolution, Total)
  /\ \E score \in PageScores(selectedTask, selectedResolution, q) :
       entries' = Append(entries,
         [score |-> score, task |-> selectedTask,
          resolution |-> selectedResolution, qualities |-> q])
  /\ draft' = EmptyDraft
  /\ UNCHANGED <<selectedTask, initialScore>>
  /\ Refresh

\* undoLastEntry, deleteEntry.
DeleteEntry(i) ==
  /\ entries' = SubSeq(entries, 1, i - 1) \o SubSeq(entries, i + 1, Len(entries))
  /\ UNCHANGED <<selectedTask, draft, initialScore>>
  /\ Refresh

\* resetCycle; and completeCycle, once the cycle is full.
EmptyCycle ==
  /\ entries' = <<>>
  /\ initialScore' = 0
  /\ UNCHANGED <<selectedTask, draft>>
  /\ Refresh

UpdateCycleSetup(score) ==
  /\ initialScore' = score
  /\ UNCHANGED <<selectedTask, draft, entries>>
  /\ Refresh

Init ==
  /\ selectedTask = "find_person"
  /\ selectedResolution = "fulfilled"
  /\ draft = EmptyDraft
  /\ initialScore = 0
  /\ entries = <<>>

Next ==
  \/ \E task \in TaskTypes : ChooseTask(task)
  \/ \E resolution \in Resolutions : ChooseResolution(resolution)
  \/ \E typed \in Drafts : TypeQualities(typed)
  \/ AddEntry
  \/ \E i \in DOMAIN entries : DeleteEntry(i)
  \/ EmptyCycle
  \/ \E score \in Scores : UpdateCycleSetup(score)

Spec == Init /\ [][Next]_vars

-----------------------------------------------------------------------------
Entry ==
  [score : Int, task : Tasks, resolution : Resolutions,
   qualities : Qualities \cup {NoQualities}]

\* Types of the form and of the cycle.
TypeOK ==
  /\ selectedTask \in Tasks
  /\ selectedResolution \in Resolutions
  /\ draft \in Qualities
  /\ initialScore \in Int
  /\ entries \in Seq(Entry) /\ Len(entries) <= LastRing

\* Whatever was recorded, undone, deleted or edited last, the resolution the
\* form would record is one of its task, and the score allows it
\* (app.mjs:128-137).
SelectionAvailable ==
  /\ selectedResolution \in ResolutionsForTask(selectedTask)
  /\ CanChooseResolution(selectedResolution, Total)

\* What the server makes of the sample of a recorded ring.
Agrees(x) ==
  LET server == StoredScores(x.task, x.resolution, x.qualities) IN
  /\ server \subseteq {x.score}
  /\ Decodes(x.qualities) => server = {x.score}

\* The server, which computes the score of a sample on its own, comes to the
\* score the page has recorded, and refuses no ring the page has scored but
\* for a quality that is not a whole number (api.go:99, rules.go:71).
ScoresAgree == \A i \in DOMAIN entries : Agrees(entries[i])

\* What the product requirements allow, a large quality gap that makes the
\* score of a ring negative, and the tests of both languages score down to
\* -498, the server's table can also hold (sqlite.go:53-54).
ScoresStorable ==
  \A i \in DOMAIN entries :
    Decodes(entries[i].qualities) => Storable(entries[i].score)
=============================================================================
