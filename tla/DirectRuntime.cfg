SPECIFICATION Spec
CONSTANTS
  p1 = p1
  p2 = p2
  focus = focus
  viewInfo = viewInfo
  code = code
  NoRequest = NoRequest
  Client <- MCClient
  Request <- MCRequest
  Command <- MCCommand
  Deferring <- MCDeferring
  Keeping <- MCKeeping
  LateReset <- MCLateReset
  Silent <- MCSilent
  Patching <- MCPatching
  MaxCalls <- MCMaxCalls
  MaxPolls = 1
  MaxFaults = 1
INVARIANTS OwnResult UnfinishedIsFenced ExclusiveUntilStale
PROPERTIES CallsEnd
CHECK_DEADLOCK FALSE
