CONSTANTS
  p = p
  Q = Q
  Pkg <- MCPkg
  Standard <- MCStandard
  File <- MCFile
  Join <- MCJoin
  Relative <- MCRelative
  Rank <- MCRank
  Paths = 2
  Trees <- MCTrees
  Scan <- MCScan
  MaxFailures = 1
SPECIFICATION Spec
INVARIANT FixedInEveryPath
CHECK_DEADLOCK FALSE
