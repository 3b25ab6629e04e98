SPECIFICATION Spec
CONSTANTS
  pat = pat
  eit = eit
  media = media
  epg = epg
  NumSlots = 3
  Pids <- MCPids
  PatPid = pat
  NoPid = NoPid
  Unconfigured = Unconfigured
  Buffers <- MCBuffers
INVARIANTS
  TypeOK
  TableConsistent
  ConfiguredAsTable
  HardwareFollowsTable
PROPERTY ImplementsBag
