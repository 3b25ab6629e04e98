SPECIFICATION Spec
CONSTANTS
  s1 = s1
  s2 = s2
  f1 = f1
  f2 = f2
  Services <- MCServices
  NoService = NoService
  Freq <- MCFreq
  NoFreq = NoFreq
  PfServices <- MCPfServices
  EpgServices <- MCEpgServices
  NumSlots = 0
  Free = Free
  NoOne = NoOne
  Calls <- WithScan
  MaxThreads = 1
CHECK_DEADLOCK FALSE
INVARIANTS
  LocksReleased
