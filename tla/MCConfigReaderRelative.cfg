SPECIFICATION Spec
CONSTANTS
  Inputs <- MCInputs
  Absent = Absent
  Unreadable = Unreadable
  DefaultBins <- MCDefaultBins
  DefaultLibs <- MCDefaultLibs
  RealPath <- MCRealPath
INVARIANTS
  RelativeIgnored
