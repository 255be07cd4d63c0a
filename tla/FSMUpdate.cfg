CONSTANTS
    Keys <- MCKeys
    MaxLog = 3
    MaxCrashes = 1
    LiFlags = {FALSE}
    NoUpdate = NoUpdate
    NoEnd = NoEnd
    Wildcard = Wildcard
SPECIFICATION FairSpec
CHECK_DEADLOCK FALSE
INVARIANT TypeOK
INVARIANT DurableStateIsLogPrefix
PROPERTY EveryEntryApplied
