CONSTANTS
    k1 = k1
    k2 = k2
    v1 = v1
    Nil = Nil
    Keys <- MCKeys
    Values <- MCValues
    Capacity = 3
    MaxMsgs = 3
    MaxSignals = 2
SPECIFICATION FairSpec
CHECK_DEADLOCK FALSE
INVARIANT TypeOK
INVARIANT ConsumerOnlyOnReadyShards
PROPERTY NodeHostStoppedLast
PROPERTY ShutdownTerminates
