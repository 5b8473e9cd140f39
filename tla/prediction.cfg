SPECIFICATION Spec
CONSTANTS
  LastRing = 3
  BucketSize = 2
  MinPredictionRings = 1
  MinSimulationRings = 2
  MinSimulationSamples = 2
  MinBucketSamples = 1
  Runs = 2
  RequestedScores <- TwoScores
  Finals <- TwoFinals
  Levels <- TwoLevels
  RingInputs <- OneRing
  Setups <- OneSetup
  Compared <- Mutant
  MaxRows = 2
INVARIANTS
  TypeOK
  FinalScoreKept
  RangePlausible
  SimulationSupported
  TiersExclusive
  BetterOptionNeverWorse
  RewardsComparable
