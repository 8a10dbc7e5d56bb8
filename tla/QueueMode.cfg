SPECIFICATION FairSpec
CONSTANTS
    e1 = e1
    e2 = e2
    w1 = w1
    w2 = w2
    NoWorker = NoWorker
    Execution <- MCExecution
    Worker <- MCWorker
    Discarded <- MCDiscarded
    MaxStalledCount = 1
    BatchSize = 1
    Deployment <- MCDeployment
INVARIANTS
    TypeOK
    SettledMeansEnded
    SuccessIsNotFailed
    QueuedIsNotCrashed
PROPERTIES
    EntrySettles
CHECK_DEADLOCK FALSE
