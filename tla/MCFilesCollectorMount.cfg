CONSTANTS
  Dir <- MCDir
  File <- MCFile
  Link <- MCLink
  Children <- MountChildren
  RealPath <- MCRealPath
  Missing = "Missing"
  Unresolvable = "Unresolvable"
  EntryInode <- MountEntryInode
  StatInode <- MCInode
  Ignored <- MCIgnored
  Wanted <- MCWanted
  Systems <- MountSystems
  Walk <- MCWalk
  PathOf <- MCPathOf
  PackageRules <- MCPackageRules
  PrefixRules <- MCPrefixRules
  ScanPaths <- MCScanPaths
SPECIFICATION Spec
INVARIANT NoInternalError
