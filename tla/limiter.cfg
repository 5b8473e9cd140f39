SPECIFICATION Spec
CONSTANTS
  Keys = {k1, k2}
  Limit = 2
  Window = 2
  MaxClock = 6
SYMMETRY KeySymmetry
INVARIANTS
  TypeOK
  BurstBound
  RefusedOnlyWhenFull
