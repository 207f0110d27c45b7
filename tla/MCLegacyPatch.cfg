CONSTANTS
  debug = debug  ms = ms  tar = tar
  vOld = vOld  vNew = vNew  vMs = vMs
  byA = byA  byB = byB  byC = byC  byD = byD
  uOld = uOld  uNew = uNew  uMs = uMs  uLib = uLib
  early = early  late = late
  NoBackup = NoBackup  Whole = Whole
  Cuts <- MCCuts
  Dirs <- MCDirs
  Ids <- MCIds
  Urls <- MCUrls
  Routes <- MCRoutes
  PathCount = 2
  EditsOf <- MCEditsOf
  List <- MCList
  Clashes <- MCClashes
  MaxRuns = 2
  MaxKills = 1
SPECIFICATION Spec
INVARIANTS TypeOK PatchedOnce Revertible BackupIsOneStepBack
PROPERTY RunsEnd
