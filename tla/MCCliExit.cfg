CONSTANTS
  Paths = 2
  MaxTargets = 2
  MaxProjects = 1
  MaxAttempts = 1
  MaxPolls = 3
SPECIFICATION Spec
INVARIANT ZeroMeansNoVulns
CHECK_DEADLOCK FALSE
