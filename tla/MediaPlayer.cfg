SPECIFICATION Spec
CONSTANTS
    a = a
    x = x
    None = None
    Folder <- MCFolder
    Bad <- MCBad
    MaxEvents = 3
    MaxNest = 2
INVARIANTS DeletesAlone
PROPERTIES PickSettles BadFileForgotten
CHECK_DEADLOCK FALSE
