SPECIFICATION Spec
CONSTANTS
  s1 = s1
  s2 = s2
  f1 = f1
  f2 = f2
  Services <- MCServices
  NoService = NoService
  Freq <- MCFreq
  NoFreq = NoFreq
  PfServices <- MCPfServices
  EpgServices <- MCEpgServices
  NumSlots = 4
  Free = Free
  NoOne = NoOne
  Calls <- Viewer
  MaxThreads = 2
INVARIANTS
  TypeOK
  JoinOnce
  FlagHasThread
  QuietAtTune
  PlayingIsRouted
  TimeBufferNotShared
  WorkersOnlyWhilePlaying
PROPERTIES SelectEnds
  ServiceStable
  NoThreadLost
