\* A legacy message and a new one, four runs; retention keeps two.
CONSTANTS
    old = old
    new = new
    Messages = {old, new}
    LegacyMessages = {old}
    MaxEvent = 2
    MaxRun = 4
    MaxIngested = 1
    KeepLastN = 2
    ReferenceRun = 0
    None = None
SPECIFICATION Spec
INVARIANTS
    IntentKept
    SolvedOnce
PROPERTIES
    AckedWithProof
    OnlyRetentionBreaksRecovery
