SPECIFICATION Spec
CONSTANTS
  LastRing = 3
  TaskTypes <- Met
  Drafts <- Typed
  Scores <- FirstScores
INVARIANTS
  ScoresStorable
