CONSTANTS
    n1 = n1
    n2 = n2
    t1 = t1
    Nodes <- MCNodes
    Names <- MCNames
    MaxId = 3
    MaxOps = 4
    Operations <- CreateDelete
    NoEntry = NoEntry
SYMMETRY NodeSymmetry
SPECIFICATION Spec
INVARIANT FreshShardIds
INVARIANT AtMostOneCreateWins
