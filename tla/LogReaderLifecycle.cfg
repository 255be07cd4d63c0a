CONSTANTS
    q1 = q1
    q2 = q2
    Queries <- MCQueriesOne
    NoObj = NoObj
    MaxIndex = 3
    CacheSize = 2
    EntrySizes = {1, 3}
    MaxSizes = {3}
    MaxRestarts = 2
    CachedModes = {TRUE, FALSE}
VIEW View
SPECIFICATION Spec
INVARIANT TypeOK
INVARIANT ResponseIsLogSlice
INVARIANT CacheIsLogRun
INVARIANT NoCompactedEntryCached
INVARIANT SimpleReaderProgresses
