CONSTANTS
  p = p
  Q = Q
  Pkg <- MCPkg
  Standard <- MCStandard
  File <- MCFile
  Join <- MCJoin
  Relative <- MCRelative
  Rank <- MCRank
  Paths = 2
  Trees <- MCTrees
  Scan <- MCScan
  MaxFailures = 1
SPECIFICATION Spec
INVARIANTS TypeOK EveryEntityReported OutcomeAgrees FixedIsFixed
PROPERTIES FixEnds
CHECK_DEADLOCK FALSE
