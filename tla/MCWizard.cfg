CONSTANTS
  a = a  b = b  c = c  d = d  e = e
  v1 = v1  v2 = v2  v3 = v3  v4 = v4  v5 = v5  v6 = v6  v7 = v7
  r1 = r1  r2 = r2  r3 = r3  r4 = r4  r5 = r5  r6 = r6  r7 = r7  r8 = r8  r9 = r9
  None = None
  MaxAttempts = 2
  Deps <- MCDeps
  Ids <- MCIds
  Routes <- MCRoutes
  List <- MCList
  Base <- MCBase
  Projects <- MCProjects
  Policies <- MCPolicies
  Options <- MCOptions
SPECIFICATION Spec
CHECK_DEADLOCK FALSE
INVARIANTS TypeOK DecisionsCarried DependenciesKept
PROPERTY CommandsEnd
