CONSTANTS
    n1 = n1
    n2 = n2
    Nodes <- MCNodes
    NoNode = NoNode
    Duration = 2
    MaxTime = 5
    MaxCalls = 5
    Skew = 0
SYMMETRY NodeSymmetry
SPECIFICATION Spec
CHECK_DEADLOCK FALSE
INVARIANT LeaseExclusive
PROPERTY ImplementsLeaseContract
