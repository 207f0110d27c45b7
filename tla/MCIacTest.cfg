CONSTANTS
  None = None
  Proc = {1, 2}
  Tree <- MCTree
  Severity <- MCSeverity
  Commands <- MCCommands
  Bundles <- MCBundles
  MaxFailures = 2
SPECIFICATION Spec
INVARIANTS TypeOK OwnRulesWhenAlone CacheIsRemoved ReportIsExact
CHECK_DEADLOCK FALSE
