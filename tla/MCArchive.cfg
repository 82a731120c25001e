CONSTANTS
  good = good
  other = other
  torn = torn
  nameless = nameless
  outside = outside
  harmless = harmless
  broken = broken
  circular = circular
  Archive <- MCArchives
  Batches <- MCBatches
  Path <- MCPath
  Entries <- MCEntries
  NameOf <- MCNameOf
  Missing <- MCMissing
  SystemLibs <- MCSystemLibs
  NoPath = "NoPath"
  Outside = "Outside"
  NoTask = NoTask
SPECIFICATION FairSpec

  
PROPERTIES
  FirstStays
  
