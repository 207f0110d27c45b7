SPECIFICATION Spec
CONSTANTS
  lodash = lodash
  axios = axios
  nyc = nyc
  v1 = v1
  v2 = v2
  index = index
  lib = lib
  vA = vA
  vB = vB
  vC = vC
  vD = vD
  dA1 = dA1
  dA2 = dA2
  dB = dB
  dC = dC
  Garbage = Garbage
  NoSnykFile = NoSnykFile
  BadSnykFile = BadSnykFile
  Names <- MCNames
  Versions <- MCVersions
  Paths <- MCPaths
  Vulns <- MCVulns
  Diffs <- MCDiffs
  PackageOf <- MCPackageOf
  PathOf <- MCPathOf
  Catalogue <- MCCatalogue
  Installed <- MCInstalled
  LegacyFiles <- MCLegacyFiles
  Clashes <- MCClashes
  SnykFiles <- MCSnykFiles
  MaxInterruptions = 1
INVARIANTS
  TypeOK
  FlaggedIsPatched
  OneLossPerInterruption
  PatchedOncePerInterruption
  FetchedBeforeWriting
  AppliedMeansMarked
PROPERTIES
  MarkedIsFrozen
  ImplementsPatchedDisk
