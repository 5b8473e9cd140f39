SPECIFICATION Spec
CONSTANTS
  Tabs = {t1}
  Flushes = {f1, f2}
  Results <- OnePlain
  RingInputs <- Zero
  ScoreInputs <- Zero
  LastRing = 2
  DeleteBatchLimit = 2
  MaxHistory = 1
  MaxId = 4
SYMMETRY FlushSymmetry
INVARIANTS
  TakenBackIsDeleted
