SPECIFICATION Spec
CONSTANTS
  Reports <- FewReports
  Scripts = {s1, s2}
  LastVersion = 2
  FirstPresent = 2
SYMMETRY ScriptSymmetry
INVARIANTS
  TypeOK
  RowsTranslated
  ColumnsComplete
  IdleConsistent
  RollbackImageServed
PROPERTIES
  SettledRowsKept
  SuccessMeansDeployed
