SPECIFICATION Spec
CONSTANTS
    MaxNode = 6
    MaxOutput = 2
    NoNode = NoNode
    NoData = NoData
    Workflow <- FanInWorkflow
    MaxRuns = 3
INVARIANT EntryIsKept
CHECK_DEADLOCK FALSE
