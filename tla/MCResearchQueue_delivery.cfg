SPECIFICATION FairSpec
CONSTANTS
    j1 = j1  j2 = j2  k1 = k1
    Jobs = {j1, j2}
    KeyOf <- SameKey
    Consumers = {c1, c2}
    MaxRetries = 1
INVARIANTS EnqueuedIsNotLost DuplicateNamesAJob
PROPERTIES SuccessIsKept EveryMessageEnds
CHECK_DEADLOCK FALSE
