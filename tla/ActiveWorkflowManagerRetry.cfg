SPECIFICATION Spec
CONSTANTS
    m1 = m1
    m2 = m2
    NoMain = NoMain
    NoEntry = NoEntry
    Main = {m1, m2}
    FirstMain = m1
    Deployment <- RetryDeployment
    MaxOperations = 2
    MaxTriggers = 3
INVARIANT
    NotDuplicatedByRetries
CHECK_DEADLOCK FALSE
