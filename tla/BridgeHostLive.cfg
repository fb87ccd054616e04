SPECIFICATION Spec
CONSTANTS
  v0 = v0
  v1 = v1
  v2 = v2
  Installed = v0
  Version <- MCVersion
  Release <- MCRelease
  NoVersion = NoVersion
  NoRelease = NoRelease
  NoOp = NoOp
  MaxFaults = 1
  MaxUnexpectedRestarts = 2
  MaxExits = 1
  MaxHostRuns = 2
PROPERTIES InterruptedReleaseFinished StopEnds
CHECK_DEADLOCK FALSE
