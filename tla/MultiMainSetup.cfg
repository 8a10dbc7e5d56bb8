SPECIFICATION FairSpec
CONSTANTS
    i1 = i1
    i2 = i2
    NoInstance = NoInstance
    Instance = {i1, i2}
    MaxChecks = 2
    MaxExpiries = 1
    MaxExits = 1
    MaxReconnects = 1
INVARIANTS TypeOK AtMostOneLeader
PROPERTIES StaleLeaderYields Converges
