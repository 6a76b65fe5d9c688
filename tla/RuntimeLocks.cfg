\* Three threads in two processes: both kinds of contention, in any mixture of
\* entry points, with a process killed at any point, under fairness.
CONSTANTS
    api1 = api1
    api2 = api2
    other = other
    server = server
    worker = worker
    Threads <- MCThreads
    Processes <- MCProcesses
    ProcessOf <- MCProcessOf
    Serves <- MCServes
    NoThread = NoThread
SPECIFICATION FairSpec
INVARIANTS
    Exclusion
    NothingLeaked
    HolderNeverWaits
PROPERTIES
    MutationReleased
