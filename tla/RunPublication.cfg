\* Two processes, three runs, one observation, a retention limit of one: the
\* third publication prunes, and every run may be built by either actor.
CONSTANTS
    p1 = p1
    p2 = p2
    Procs = {p1, p2}
    f1 = f1
    Feedback = {f1}
    MaxRun = 3
    KeepLastN = 1
    ReferenceRun = 0
    NoProc = NoProc
SPECIFICATION FairSpec
INVARIANTS
    RegistryInv
    PublishedIsWhole
    NoLostFeedback
    FeedbackOnPublished
PROPERTIES
    ActiveNeverLost
    LifecycleRefined
    WriterLeaves
