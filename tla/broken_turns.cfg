SPECIFICATION Spec
CONSTANTS
  LastRing = 3
  MaxHistory = 1
  MaxId = 8
  Results <- OneResult
  RingInputs <- TwoRings
INVARIANTS
  TypeOK
  OutboxRecorded
  DeletionsFinal
  CyclesReported
  RingsWithinCycle
  HistoryBounded
