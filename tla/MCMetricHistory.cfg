SPECIFICATION Spec
CONSTANTS
    MaxId = 2
    Values = {1, 3}
    HourLen = 2
    MaxTime = 6
    Retentions <- MCRetentions
    BucketLens = {1, 4}
    MaxPruners = 2
INVARIANT CountedOnce
INVARIANT AnswersComplete
INVARIANT ListsComplete
CHECK_DEADLOCK FALSE
