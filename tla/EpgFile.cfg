CONSTANTS
    Services <- MCServices
    Schedules <- MCSchedules
    ParsedTables = 2
    DAYS = 3
    MaxChanges = 1
    MaxCancels = 1
    MaxRefusals = 1
    MaxCrashes = 1
    MaxTroubles = 3
    MaxDay = 2
SPECIFICATION Spec
INVARIANTS GuideWhole IndexFits FirstDayRead
PROPERTIES DownloadEnds GuideOfToday
CHECK_DEADLOCK FALSE
