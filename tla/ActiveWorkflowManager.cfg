SPECIFICATION FairSpec
CONSTANTS
    m1 = m1
    m2 = m2
    NoMain = NoMain
    NoEntry = NoEntry
    Main = {m1, m2}
    FirstMain = m1
    Deployment <- MCDeployment
    MaxOperations = 2
    MaxTriggers = 4
INVARIANTS
    ManagerTypeOK
    InactiveIsStopped
    NotDuplicated
PROPERTY
    ActiveIsServed
CHECK_DEADLOCK FALSE
