CONSTANTS
    NChannels = 2
    BadTimeout = 1
    AfterFail = 1
    AfterStop = 1
    MaxWishes = 2
    MaxPower = 2
    MaxFades = 2
    MaxFaults = 1
    MaxEvents = 3
    MaxNest = 1
SPECIFICATION Spec
INVARIANTS ScreenFollowsWish WatchRuns
PROPERTY LastChosenPlays
CHECK_DEADLOCK FALSE
