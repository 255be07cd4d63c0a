CONSTANTS
    n1 = n1
    n2 = n2
    t1 = t1
    Nodes <- MCNodesOne
    Names <- MCNames
    MaxId = 2
    MaxOps = 1
    Operations <- AllOperations
    NoEntry = NoEntry
SPECIFICATION Spec
PROPERTY ReferencedDataKept
