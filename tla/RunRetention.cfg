\* Three runs over four ticks of a two-tick day, local time one tick ahead.
CONSTANTS
    MaxRun = 3
    MaxClock = 3
    DayLength = 2
    UtcOffset = 1
    KeepLastN = 2
SPECIFICATION Spec
INVARIANTS
    SurvivorsKeepBundles
    WholeCopyUnlessCut
PROPERTIES
    AgeErrorBounded
CHECK_DEADLOCK FALSE
