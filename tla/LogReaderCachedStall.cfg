CONSTANTS
    q1 = q1
    q2 = q2
    Queries <- MCQueriesOne
    NoObj = NoObj
    MaxIndex = 3
    CacheSize = 2
    EntrySizes = {1, 3}
    MaxSizes = {3}
    MaxRestarts = 0
    CachedModes = {TRUE}
VIEW View
SPECIFICATION Spec
INVARIANT BehindCallerProgresses
