SPECIFICATION FileSpec
CONSTANTS
    tv1 = tv1
    tv2 = tv2
    tv3 = tv3
    hd2 = hd2
    NULL = NULL
    Nodes <- Addresses
    Stations <- AllStations
    Loadable <- TvStations
    Multiplexes <- FoundOnFrequencies
    MaxRecords = 5
    MaxRewrites = 3
INVARIANTS
    NoBadAccess
PROPERTIES
    ImplementsSequence
    SavedIsListed
    ImplementsStore
