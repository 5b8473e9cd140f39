SPECIFICATION FairSpec
CONSTANTS
  Tabs = {t1}
  Flushes = {f1}
  Results <- PlainAndPoor
  RingInputs = {}
  ScoreInputs = {}
  LastRing = 2
  DeleteBatchLimit = 2
  MaxHistory = 1
  MaxId = 3
PROPERTIES
  DeletionsLeave
  SamplesLeave
