SPECIFICATION NetworkFairSpec
CONSTANTS
  Tabs = {t1}
  Flushes = {f1}
  Results <- OnePlain
  RingInputs = {}
  ScoreInputs = {}
  LastRing = 1
  DeleteBatchLimit = 1
  MaxHistory = 1
  MaxId = 3
PROPERTIES
  DeletionsCompleteOnline
