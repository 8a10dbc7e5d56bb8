SPECIFICATION Spec
CONSTANTS
    MaxNode = 5
    MaxOutput = 2
    NoNode = NoNode
    NoData = NoData
    Workflow <- MCWorkflow
    MaxRuns = 3
INVARIANTS
    EngineTypeOK
    DataIsDelivered
    MatchesDataflow
    EndIsReported
CHECK_DEADLOCK FALSE
