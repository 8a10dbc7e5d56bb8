SPECIFICATION FairSpec
CONSTANTS
    r1 = r1
    r2 = r2
    q1 = q1
    q2 = q2
    NoRequest = NoRequest
    Runner = {r1, r2}
    Request = {q1, q2}
    RunnerType <- MCRunnerType
    RequestType <- MCRequestType
    MaxConcurrency = 1
    Deployment <- MCSmall
    MaxOffer = 2
    MaxLosses = 1
    MaxSlowAccepts = 1
    MaxSlowOffers = 0
CHECK_DEADLOCK FALSE
INVARIANT OneAttemptPerRequest
PROPERTIES EveryCallSettles SlotIsFreed
