CONSTANTS
    tv1 = tv1
    tv2 = tv2
    data1 = data1
    twin1 = twin1
    twin2 = twin2
    Services <- MCServices
    Muxes <- MCMuxes
    PmtPids <- MCPmtPids
    PatPid = 0
    SdtPid = 17
    SdtLen = 3
    CcMod = 4
    MaxLoss = 2
    NoList = NoList
SPECIFICATION Spec
INVARIANTS FilterClean SdtWhole PlayableList
PROPERTY ScanEnds
