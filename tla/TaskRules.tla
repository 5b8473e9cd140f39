------------------------------ MODULE TaskRules ------------------------------
(***************************************************************************)
(* What a ring scores, written down twice: in the page (src/web/model.mjs) *)
(* and on the server (src/internal/domain/rules.go), which does not look   *)
(* at the page's score but computes its own from the body it is sent.      *)
(*                                                                         *)
(* A quality is a number typed into a field: any number for the page, a    *)
(* whole one for the server.  Here it is counted in halves.  A scoring     *)
(* that may throw yields the set of its result: {} when it throws.         *)
(***************************************************************************)
EXTENDS Integers

Tasks == {"find_person", "equipment_60", "furniture_1", "medicine", "cooking",
          "equipment_70", "flower_instrument", "equipment_80", "furniture_2",
          "mutant_specific"}

Resolutions == {"fulfilled", "quality_below", "mutant_unspecified",
                "normal_pet", "skipped"}

\* Both qualities, or neither: undefined in the page, null on the server.
Halves      == Int
Qualities   == [required : Halves, actual : Halves]
NoQualities == [none |-> TRUE]

Given(q)    == q # NoQualities
Negative(q) == q.required < 0 \/ q.actual < 0
Below(q)    == q.actual < q.required
Whole(q)    == q.required % 2 = 0 /\ q.actual % 2 = 0

-----------------------------------------------------------------------------
(* The page.                                                               *)

PageBase ==
  [find_person |-> 1, equipment_60 |-> 2, furniture_1 |-> 2, medicine |-> 2,
   cooking |-> 2, equipment_70 |-> 3, flower_instrument |-> 4,
   equipment_80 |-> 5, furniture_2 |-> 5, mutant_specific |-> 10]

PageNeedsQuality == {"medicine", "cooking"}

PageFixed == [mutant_unspecified |-> 5, normal_pet |-> -15, skipped |-> -20]

ScoreTask(task, q) ==
  IF task \notin PageNeedsQuality THEN {PageBase[task]}
  ELSE IF ~Given(q) \/ Negative(q) THEN {}
  ELSE IF ~Below(q) THEN {PageBase[task]}
  ELSE {PageBase[task] - (q.required - q.actual) \div 4}   \* floor, of halves

\* scoreResolution
PageScores(task, resolution, q) ==
  CASE resolution = "fulfilled" ->
         IF task \in PageNeedsQuality /\ ~Given(q) THEN {PageBase[task]}
         ELSE ScoreTask(task, q)
    [] resolution = "quality_below" ->
         IF task \in PageNeedsQuality /\ Given(q) /\ Below(q)
         THEN ScoreTask(task, q) ELSE {}
    [] resolution \in {"mutant_unspecified", "normal_pet"} ->
         IF task = "mutant_specific" THEN {PageFixed[resolution]} ELSE {}
    [] resolution = "skipped" -> {PageFixed[resolution]}

ResolutionsForTask(task) ==
  {"fulfilled", "skipped"}
    \cup (IF task \in PageNeedsQuality THEN {"quality_below"} ELSE {})
    \cup (IF task = "mutant_specific" THEN {"mutant_unspecified", "normal_pet"} ELSE {})

CanChooseResolution(resolution, score) == resolution = "skipped" => score >= 20

-----------------------------------------------------------------------------
(* The server.                                                             *)

ServerBase ==
  [find_person |-> 1, equipment_60 |-> 2, furniture_1 |-> 2, medicine |-> 2,
   cooking |-> 2, equipment_70 |-> 3, flower_instrument |-> 4,
   equipment_80 |-> 5, furniture_2 |-> 5, mutant_specific |-> 10]

ServerNeedsQuality == {"medicine", "cooking"}

\* The decoder reads the qualities into integers.
Decodes(q) == Given(q) => Whole(q)

\* Go divides integers, and cuts off towards zero.
Quotient(n, d) == IF n < 0 THEN -((-n) \div d) ELSE n \div d

\* domain.ScoreTask, of whole qualities.
ServerScoreTask(task, q) ==
  IF task \notin ServerNeedsQuality THEN {ServerBase[task]}
  ELSE IF ~Given(q) \/ Negative(q) THEN {}
  ELSE IF ~Below(q) THEN {ServerBase[task]}
  ELSE {ServerBase[task] - Quotient(q.required \div 2 - q.actual \div 2, 2)}

\* domain.ScoreResolution, and the answer 400 to a body that does not decode.
ServerScores(task, resolution, q) ==
  CASE ~Decodes(q) -> {}
    [] Decodes(q) /\ resolution = "fulfilled" ->
         IF task \in ServerNeedsQuality /\ ~Given(q) THEN {ServerBase[task]}
         ELSE ServerScoreTask(task, q)
    [] Decodes(q) /\ resolution = "quality_below" ->
         IF task \in ServerNeedsQuality /\ Given(q) /\ Below(q)
         THEN ServerScoreTask(task, q) ELSE {}
    [] Decodes(q) /\ resolution = "skipped" -> {-20}
    [] Decodes(q) /\ resolution = "mutant_unspecified" ->
         IF task = "mutant_specific" THEN {5} ELSE {}
    [] Decodes(q) /\ resolution = "normal_pet" ->
         IF task = "mutant_specific" THEN {-15} ELSE {}

\* RequestedTaskScore: what the task would have scored, which the public
\* model is made of.
RequestedTaskScore(task, q) ==
  IF task \notin ServerNeedsQuality \/ ~Given(q) THEN {ServerBase[task]}
  ELSE ServerScoreTask(task, q)

\* The score taskEvent stores: without one of the two it answers 400.
StoredScores(task, resolution, q) ==
  IF RequestedTaskScore(task, q) = {} THEN {} ELSE ServerScores(task, resolution, q)

\* The CHECK constraint on the score columns, which no handler looks at.
Storable(score) == score \in -100..100
=============================================================================
