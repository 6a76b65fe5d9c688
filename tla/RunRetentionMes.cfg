\* Three runs, retention keeps the ACTIVE one only.
CONSTANTS
    MaxRun = 3
    MaxClock = 0
    DayLength = 2
    UtcOffset = 0
    KeepLastN = 1
SPECIFICATION Spec
PROPERTY OldRunsLeave
CHECK_DEADLOCK FALSE
