\* Three runs at UTC over one day, retention keeps two.
CONSTANTS
    MaxRun = 3
    MaxClock = 1
    DayLength = 2
    UtcOffset = 0
    KeepLastN = 2
SPECIFICATION Spec
PROPERTY NewestKept
CHECK_DEADLOCK FALSE
