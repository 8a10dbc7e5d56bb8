SPECIFICATION FairSpec
CONSTANTS
    m1 = m1
    m2 = m2
    parent = parent
    child = child
    Main = {m1, m2}
    NoExecution = NoExecution
    Execution <- MCExecution
    Parent <- MCParent
    Webhooked <- MCWebhooked
    Deployment <- MCDeployment
    Window = 1
    MaxTime = 1
    MaxWaits = 1
    MaxPolls = 1
    MaxStarts = 2
    MaxStepdowns = 1
INVARIANT TimerIsHeld
PROPERTIES StoppedForGood DueIsResumed
CHECK_DEADLOCK FALSE
