\* As MesOutbox, with the source run protected by the reference manifest
\* and a retention that keeps only the ACTIVE run besides it.
CONSTANTS
    old = old
    new = new
    Messages = {old, new}
    LegacyMessages = {old}
    MaxEvent = 2
    MaxRun = 4
    MaxIngested = 1
    KeepLastN = 1
    ReferenceRun = 1
    None = None
SPECIFICATION Spec
INVARIANTS
    CrashRecoverable
