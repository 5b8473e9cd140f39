SPECIFICATION Spec
CONSTANTS
  Tabs = {t1}
  Flushes = {f1}
  Results <- AllResults
  RingInputs <- RawRings
  ScoreInputs <- Scores
  LastRing = 3
  DeleteBatchLimit = 3
  MaxHistory = 1
  MaxId = 3
INVARIANTS
  TypeOK
  RingsWithinCycle
  NoSampleLost
PROPERTIES
  RingsStayInOrder
  OnlyFullCyclesComplete
