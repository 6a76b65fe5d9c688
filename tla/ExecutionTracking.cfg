\* One task, two machines, three slots, three versions: a reschedule of a
\* reschedule, with clocks that may run backwards, beside the facade and a
\* comparison.
CONSTANTS
    t1 = t1
    Tasks = {t1}
    m1 = m1
    m2 = m2
    Machines = {m1, m2}
    LastSlot = 2
    MaxRun = 3
    None = None
    SandboxRun = 99
    ExpectedOps <- MCExpectedOps
    LagLimit = 3
    Envelopes <- MCEnvelopes
    MaxDeliveries = 4
    PlannedUnits = 2
    FloorEvents <- MCFloorEvents
    MaxEvents = 6
SPECIFICATION MCSpec
SYMMETRY Symmetry
INVARIANTS
    CommittedNeverMoves
    FrozenOnlyGrows
    TrackingExplained
    LateReadersConsistent
    ArrivalOrderIrrelevant
    AccountBalances
