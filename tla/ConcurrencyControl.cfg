SPECIFICATION FairSpec
CONSTANTS
    c1 = c1
    c2 = c2
    c3 = c3
    e1 = e1
    e2 = e2
    e3 = e3
    NoCall = NoCall
    Call <- MCCall
    Execution <- MCExecution
    ExecutionOf <- MCExecutionOf
    ModeOf <- MCModeOf
    StoredMode <- MCStoredMode
    Resuming <- MCResuming
    ProductionLimit = 1
    EvaluationLimit <- MCUnlimited
CHECK_DEADLOCK FALSE
INVARIANTS TypeOK CapacityAccounting QueuedIffThrottled WorkConserving
PROPERTIES IsAdmissionQueue ThrottledIsServed SlotIsReturned
