CONSTANTS
  Paths = 2
  MaxTargets = 2
  MaxProjects = 2
  MaxAttempts = 1
  MaxPolls = 3
SPECIFICATION Spec
INVARIANTS TypeOK EveryPathAnswered OneMeansVulns ZeroMeansMonitored ShownMeansStored
PROPERTIES RunEnds
CHECK_DEADLOCK FALSE
