SPECIFICATION Spec
CONSTANTS
  Inputs <- MCInputs
  Absent = Absent
  Unreadable = Unreadable
  DefaultBins <- MCDefaultBins
  DefaultLibs <- MCDefaultLibs
  RealPath <- MCRealPath
INVARIANTS
  PartsIntact
  LinesAheadUntouched
  StopsAtFirstError
  ListsExact
  RulesExact
  IgnoresExact
