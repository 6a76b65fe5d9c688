\* Chains of two reschedules from every physical plan of four operations.
CONSTANTS
    Tasks <- MCTasks
    Operation <- MCOperation
    Machines <- MCMachines
    Changeover <- MCChangeover
    InitialProduct <- MCInitialProduct
    DayLength = 4
    WeekLength = 3
    Night <- MCNight
    OvertimeBudget <- MCOvertimeBudget
    PlannedStops <- MCPlannedStops
    Horizon = 15
    Triggers <- MCTriggers
    Slice = 2
    KpiStep = 2
    Power <- MCPower
    Rates <- MCRates
    FirstCalls <- MCFirstCalls
    TaskOrder <- MCTaskOrder
    MaxVersions = 2
    MaxReports = 1
SPECIFICATION Spec
INVARIANTS
    SolverPassesAudit
    ContextHonoured
    QuietEventKeepsPlan
    RepairIsCertified
    EnergyBooksAgree
    CostBooksAgree
    AuditCatches
    ProvenMeansBest
CHECK_DEADLOCK FALSE
