-------------------------- MODULE EntryFormProofs --------------------------
(***************************************************************************)
(* For every length of a cycle, whatever is typed into the quality fields: *)
(* the form never holds a resolution it may not record, and the server     *)
(* scores every ring as the page did.                                      *)
(***************************************************************************)
EXTENDS EntryForm, SequenceTheorems, TLAPS

\* The page's and the server's penalty are the same number: the one divides
\* halves by four and rounds down, the other whole numbers by two and cuts
\* off.
LEMMA SamePenalty ==
  ASSUME NEW q \in Qualities, Whole(q), Below(q)
  PROVE  (q.required - q.actual) \div 4 = Quotient(q.required \div 2 - q.actual \div 2, 2)
PROOF
<1> DEFINE r == q.required \div 2
           a == q.actual \div 2
<1>1. q.required \in Int /\ q.actual \in Int
  BY DEF Qualities, Halves
<1>2. /\ r \in Int /\ a \in Int
      /\ q.required = 2 * r /\ q.actual = 2 * a /\ a < r
  BY <1>1 DEF Whole, Below
<1> HIDE DEF r, a
<1>3. (2 * r - 2 * a) \div 4 = (r - a) \div 2
  BY <1>2
<1> QED BY <1>2, <1>3 DEF Quotient, r, a

\* What both sides make of a task with qualities.
LEMMA SameScoreTask ==
  ASSUME NEW task \in Tasks, NEW q \in Qualities \cup {NoQualities}, Decodes(q)
  PROVE  ServerScoreTask(task, q) = ScoreTask(task, q)
PROOF
<1>1. ServerBase[task] = PageBase[task] /\ ServerNeedsQuality = PageNeedsQuality
  BY DEF Tasks, ServerBase, PageBase, ServerNeedsQuality, PageNeedsQuality
<1>2. CASE Given(q) /\ Below(q)
  <2>1. q \in Qualities /\ Whole(q)
    BY <1>2 DEF Given, Decodes
  <2>2. (q.required - q.actual) \div 4 = Quotient(q.required \div 2 - q.actual \div 2, 2)
    BY <1>2, <2>1, SamePenalty
  <2> QED BY <1>1, <2>2 DEF ServerScoreTask, ScoreTask
<1>3. CASE ~(Given(q) /\ Below(q))
  BY <1>1, <1>3 DEF ServerScoreTask, ScoreTask
<1> QED BY <1>2, <1>3

\* The two scorings agree on every ring the page can score.
LEMMA SameScores ==
  ASSUME NEW task \in Tasks, NEW resolution \in Resolutions,
         NEW q \in Qualities \cup {NoQualities},
         Given(q) => AsksQuality(task, resolution),
         NEW score \in PageScores(task, resolution, q)
  PROVE  /\ score \in Int
         /\ StoredScores(task, resolution, q) \subseteq {score}
         /\ Decodes(q) => StoredScores(task, resolution, q) = {score}
PROOF
<1>1. /\ PageNeedsQuality = ServerNeedsQuality
      /\ PageBase[task] = ServerBase[task] /\ PageBase[task] \in Int
  BY DEF Tasks, ServerBase, PageBase, ServerNeedsQuality, PageNeedsQuality
<1>2. \A s \in ScoreTask(task, q) : s \in Int /\ ScoreTask(task, q) = {s}
  <2>1. Given(q) => (q.required - q.actual) \div 4 \in Int
    BY DEF Given, Qualities, Halves
  <2> QED BY <1>1, <2>1 DEF ScoreTask
<1>3. Decodes(q) => ServerScoreTask(task, q) = ScoreTask(task, q)
  BY SameScoreTask
<1>4. /\ ServerScores(task, resolution, q) \subseteq {score} /\ score \in Int
      /\ Decodes(q) => ServerScores(task, resolution, q) = {score}
  <2>1. CASE resolution = "fulfilled"
    BY <1>1, <1>2, <1>3, <2>1 DEF PageScores, ServerScores
  <2>2. CASE resolution = "quality_below"
    BY <1>1, <1>2, <1>3, <2>2 DEF PageScores, ServerScores
  <2>3. CASE resolution \in {"mutant_unspecified", "normal_pet", "skipped"}
    BY <2>3 DEF PageScores, ServerScores, PageFixed
  <2> QED BY <2>1, <2>2, <2>3 DEF Resolutions
<1>5. ASSUME Decodes(q) PROVE RequestedTaskScore(task, q) # {}
  <2>1. CASE task \notin ServerNeedsQuality \/ ~Given(q)
    BY <2>1 DEF RequestedTaskScore
  <2>2. CASE task \in ServerNeedsQuality /\ Given(q)
    <3>1. ScoreTask(task, q) # {}
      BY <1>1, <2>2 DEF AsksQuality, PageScores
    <3> QED BY <1>3, <1>5, <2>2, <3>1 DEF RequestedTaskScore
  <2> QED BY <2>1, <2>2
<1> QED BY <1>4, <1>5 DEF StoredScores

-----------------------------------------------------------------------------
IInv == TypeOK /\ SelectionAvailable /\ ScoresAgree

\* A render leaves a selection the score it renders allows.
LEMMA RenderSelects ==
  ASSUME NEW task, NEW resolution, NEW total,
         RenderResolutionOptions(task, resolution, total)
  PROVE  /\ selectedResolution' \in ResolutionsForTask(task)
         /\ CanChooseResolution(selectedResolution', total)
         /\ selectedResolution' \in Resolutions
PROOF
<1>1. ResolutionsForTask(task) \subseteq Resolutions
  BY DEF ResolutionsForTask, Resolutions
<1>2. "fulfilled" \in ResolutionsForTask(task)
  BY DEF ResolutionsForTask
<1> QED BY <1>1, <1>2 DEF RenderResolutionOptions, CanChooseResolution

\* Handlers that change the cycle end with a render of what they leave.
LEMMA RefreshSelects ==
  ASSUME Refresh, selectedTask' = selectedTask
  PROVE  SelectionAvailable' /\ selectedResolution' \in Resolutions
PROOF
BY RenderSelects DEF Refresh, SelectionAvailable, Total

LEMMA InitIInv == Init => IInv
PROOF
<1> SUFFICES ASSUME Init PROVE IInv
  OBVIOUS
<1>1. TypeOK
  BY FormAssumption DEF Init, TypeOK, Tasks, Resolutions, EmptyDraft, Qualities, Halves
<1>2. SelectionAvailable
  BY DEF Init, SelectionAvailable, ResolutionsForTask, CanChooseResolution
<1>3. ScoresAgree
  BY DEF Init, ScoresAgree
<1> QED BY <1>1, <1>2, <1>3 DEF IInv

\* Recording a ring.
LEMMA AddEntryKeepsIInv ==
  ASSUME IInv, AddEntry
  PROVE  IInv'
PROOF
<1> DEFINE q == QualitiesRead(selectedTask, selectedResolution)
<1>1. PICK score \in PageScores(selectedTask, selectedResolution, q) :
        entries' = Append(entries,
          [score |-> score, task |-> selectedTask,
           resolution |-> selectedResolution, qualities |-> q])
  BY DEF AddEntry
<1> DEFINE x == [score |-> score, task |-> selectedTask,
                 resolution |-> selectedResolution, qualities |-> q]
<1>2. /\ selectedTask \in Tasks /\ selectedResolution \in Resolutions
      /\ q \in Qualities \cup {NoQualities}
      /\ Given(q) => AsksQuality(selectedTask, selectedResolution)
  BY DEF IInv, TypeOK, QualitiesRead, Given
<1> HIDE DEF q
<1>3. /\ score \in Int
      /\ StoredScores(selectedTask, selectedResolution, q) \subseteq {score}
      /\ Decodes(q) => StoredScores(selectedTask, selectedResolution, q) = {score}
  BY <1>1, <1>2, SameScores
<1>4. x \in Entry
  BY <1>2, <1>3 DEF Entry
<1>5. /\ x.score = score /\ x.task = selectedTask
      /\ x.resolution = selectedResolution /\ x.qualities = q
  OBVIOUS
<1> HIDE DEF x
<1>6. entries' = Append(entries, x) /\ entries \in Seq(Entry) /\ Len(entries) < LastRing
  BY <1>1 DEF x, AddEntry, CycleOpen, IInv, TypeOK
<1>7. /\ entries' \in Seq(Entry) /\ Len(entries') <= LastRing
      /\ DOMAIN entries' = 1..(Len(entries) + 1)
      /\ \A i \in 1..Len(entries) : entries'[i] = entries[i]
      /\ entries'[Len(entries) + 1] = x
  BY <1>4, <1>6, FormAssumption
<1>8. SelectionAvailable' /\ selectedResolution' \in Resolutions
  BY RefreshSelects DEF AddEntry
<1>9. TypeOK'
  BY <1>7, <1>8 DEF AddEntry, IInv, TypeOK, EmptyDraft, Qualities, Halves
<1>10. ScoresAgree'
  <2>1. Agrees(x)
    BY <1>3, <1>5 DEF Agrees
  <2>2. \A j \in 1..Len(entries) : Agrees(entries[j])
    BY <1>6 DEF IInv, ScoresAgree
  <2>3. \A j \in 1..(Len(entries) + 1) : j = Len(entries) + 1 \/ j \in 1..Len(entries)
    BY <1>6
  <2>4. \A j \in DOMAIN entries' : \E y : Agrees(y) /\ entries'[j] = y
    BY <1>7, <2>1, <2>2, <2>3
  <2> QED BY <2>4 DEF ScoresAgree, Agrees
<1> QED BY <1>8, <1>9, <1>10 DEF IInv

\* Taking a ring back.
LEMMA DeleteEntryKeepsIInv ==
  ASSUME IInv, NEW i \in DOMAIN entries, DeleteEntry(i)
  PROVE  IInv'
PROOF
<1> DEFINE n == Len(entries)
           before == SubSeq(entries, 1, i - 1)
           after == SubSeq(entries, i + 1, n)
<1>1. entries \in Seq(Entry) /\ n \in Nat /\ i \in 1..n /\ n <= LastRing
  BY DEF IInv, TypeOK
<1>2. /\ before \in Seq(Entry) /\ Len(before) = i - 1
      /\ \A j \in 1..(i - 1) : before[j] = entries[j]
  BY <1>1
<1>3. /\ after \in Seq(Entry) /\ Len(after) = n - i
      /\ \A j \in 1..(n - i) : after[j] = entries[j + i]
  BY <1>1
<1>4. entries' = before \o after
  BY DEF DeleteEntry
<1> HIDE DEF before, after
<1>5. /\ entries' \in Seq(Entry) /\ Len(entries') = n - 1
      /\ \A j \in DOMAIN entries' : \E k \in DOMAIN entries : entries'[j] = entries[k]
  <2> HIDE DEF n
  <2>1. entries' \in Seq(Entry) /\ Len(entries') = Len(before) + Len(after)
    BY <1>2, <1>3, <1>4, ConcatProperties
  <2>3. Len(entries') = n - 1
    BY <1>1, <1>2, <1>3, <2>1
  <2>2. ASSUME NEW j \in 1..(n - 1) PROVE \E k \in 1..n : entries'[j] = entries[k]
    <3>1. CASE j <= i - 1
      <4>1. entries'[j] = entries[j] /\ j \in 1..n
        BY <1>1, <1>2, <1>3, <1>4, <3>1, ConcatProperties
      <4> QED BY <4>1
    <3>2. CASE j > i - 1
      <4>1. entries'[j] = after[j - (i - 1)] /\ j - (i - 1) \in 1..(n - i)
        <5>1. /\ j \in 1..(Len(before) + Len(after)) /\ ~(j <= Len(before))
              /\ j - (i - 1) \in 1..(n - i)
          <6>1. Len(before) = i - 1 /\ Len(after) = n - i
            BY <1>2, <1>3
          <6>2. n \in Int /\ i \in Int /\ j \in Int /\ 1 <= j /\ j <= n - 1
            BY <1>1
          <6> QED BY <3>2, <6>1, <6>2
        <5>2. (before \o after)[j] = after[j - Len(before)]
          BY <1>2, <1>3, <5>1, ConcatProperties
        <5> QED BY <1>2, <1>4, <5>1, <5>2
      <4>2. entries'[j] = entries[j + 1] /\ j + 1 \in 1..n
        <5>1. after[j - (i - 1)] = entries[(j - (i - 1)) + i]
          BY <1>3, <4>1
        <5>2. n \in Int /\ i \in Int /\ j \in Int /\ 1 <= j /\ j <= n - 1
          BY <1>1
        <5>3. (j - (i - 1)) + i = j + 1 /\ j + 1 \in 1..n
          BY <5>2
        <5> QED BY <4>1, <5>1, <5>3
      <4> QED BY <4>2
    <3> QED BY <1>1, <3>1, <3>2
  <2>4. DOMAIN entries' = 1..(n - 1) /\ DOMAIN entries = 1..n
    BY <1>1, <2>1, <2>3 DEF n
  <2> QED BY <2>1, <2>2, <2>3, <2>4
<1>6. SelectionAvailable' /\ selectedResolution' \in Resolutions
  BY RefreshSelects DEF DeleteEntry
<1>7. TypeOK'
  BY <1>1, <1>5, <1>6, FormAssumption DEF DeleteEntry, IInv, TypeOK
<1>8. ScoresAgree'
  BY <1>5 DEF IInv, ScoresAgree, Agrees
<1> QED BY <1>6, <1>7, <1>8 DEF IInv

LEMMA NextIInv == IInv /\ [Next]_vars => IInv'
PROOF
<1> SUFFICES ASSUME IInv, [Next]_vars PROVE IInv'
  OBVIOUS
<1>1. ASSUME NEW task \in TaskTypes, ChooseTask(task) PROVE IInv'
  <2>1. /\ selectedResolution' \in ResolutionsForTask(task)
        /\ CanChooseResolution(selectedResolution', Total)
        /\ selectedResolution' \in Resolutions
    BY <1>1, RenderSelects DEF ChooseTask
  <2> QED BY <1>1, <2>1, FormAssumption
          DEF ChooseTask, IInv, TypeOK, SelectionAvailable, ScoresAgree, Total
<1>2. ASSUME NEW resolution \in Resolutions, ChooseResolution(resolution) PROVE IInv'
  <2>1. /\ selectedResolution' \in ResolutionsForTask(selectedTask)
        /\ CanChooseResolution(selectedResolution', Total)
        /\ selectedResolution' \in Resolutions
    BY <1>2, RenderSelects DEF ChooseResolution
  <2> QED BY <1>2, <2>1
          DEF ChooseResolution, IInv, TypeOK, SelectionAvailable, ScoresAgree, Total
<1>3. ASSUME NEW typed \in Drafts, TypeQualities(typed) PROVE IInv'
  BY <1>3, FormAssumption
     DEF TypeQualities, IInv, TypeOK, SelectionAvailable, ScoresAgree, Total
<1>4. CASE AddEntry
  BY <1>4, AddEntryKeepsIInv
<1>5. ASSUME NEW i \in DOMAIN entries, DeleteEntry(i) PROVE IInv'
  BY <1>5, DeleteEntryKeepsIInv
<1>6. CASE EmptyCycle
  <2>1. SelectionAvailable' /\ selectedResolution' \in Resolutions
    BY <1>6, RefreshSelects DEF EmptyCycle
  <2> QED BY <1>6, <2>1, FormAssumption DEF EmptyCycle, IInv, TypeOK, ScoresAgree
<1>7. ASSUME NEW score \in Scores, UpdateCycleSetup(score) PROVE IInv'
  <2>1. SelectionAvailable' /\ selectedResolution' \in Resolutions
    BY <1>7, RefreshSelects DEF UpdateCycleSetup
  <2> QED BY <1>7, <2>1, FormAssumption DEF UpdateCycleSetup, IInv, TypeOK, ScoresAgree
<1>8. CASE UNCHANGED vars
  BY <1>8 DEF vars, IInv, TypeOK, SelectionAvailable, ScoresAgree, Total
<1> QED BY <1>1, <1>2, <1>3, <1>4, <1>5, <1>6, <1>7, <1>8 DEF Next

LEMMA Inductive == Spec => []IInv
PROOF
<1> QED BY InitIInv, NextIInv, PTL DEF Spec

\* The form and the cycle are typed, and a cycle never outgrows its rings.
THEOREM FormTyped == Spec => []TypeOK
PROOF
<1>1. IInv => TypeOK
  BY DEF IInv
<1> QED BY <1>1, Inductive, PTL

\* The form never holds a resolution the page would not let the user choose.
THEOREM SelectionStaysAvailable == Spec => []SelectionAvailable
PROOF
<1>1. IInv => SelectionAvailable
  BY DEF IInv
<1> QED BY <1>1, Inductive, PTL

\* The two implementations of the scoring agree on everything the page sends.
THEOREM ServerAgrees == Spec => []ScoresAgree
PROOF
<1>1. IInv => ScoresAgree
  BY DEF IInv
<1> QED BY <1>1, Inductive, PTL
=============================================================================
