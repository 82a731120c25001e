CONSTANTS
  File <- MCFile
  Name <- MCName
  AbsPath <- MCAbsPath
  Dir <- MCDir
  Facts <- MCFacts
  Systems <- MCSystems
  Additions <- MCAdditions
  ScanMoreLibs <- MCMore
  ScanDefaultLibs <- MCDefault
SPECIFICATION Spec
INVARIANTS
  ReportsExactly
  BoundToFirst
