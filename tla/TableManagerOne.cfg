CONSTANTS
    n1 = n1
    n2 = n2
    t1 = t1
    Nodes <- MCNodesOne
    Names <- MCNames
    MaxId = 2
    MaxOps = 3
    Operations <- AllOperations
    NoEntry = NoEntry
SPECIFICATION FairSpec
INVARIANT TypeOK
PROPERTY OrphanShardStopped
PROPERTY StaleRouteRepaired
