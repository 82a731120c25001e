CONSTANTS
  Dir <- MCDir
  File <- MCFile
  Link <- MCLink
  Children <- MCChildren
  RealPath <- MCRealPath
  Missing = "Missing"
  Unresolvable = "Unresolvable"
  EntryInode <- MCInode
  StatInode <- MCInode
  Ignored <- MCIgnored
  Wanted <- MCWanted
  Systems <- MCSystems
  Walk <- MCWalk
  PathOf <- MCPathOf
  PackageRules <- MCPackageRules
  PrefixRules <- MCPrefixRules
  ScanPaths <- MCScanPaths
SPECIFICATION Spec
INVARIANT LdCacheBitness
