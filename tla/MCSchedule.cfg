SPECIFICATION FairSpec
CONSTANTS
    v1 = v1  v2 = v2  j1 = j1  j2 = j2  x1 = x1  x2 = x2
    Workers = {v1, v2}
    Jobs = {j1, j2}
    Rows = {x1, x2}
    BatchLimit = 1
    Ttl = 2
    RetryDelay = 1
    Interval = 1
    MaxAttempts = 2
    Prompt = FALSE
    MaxFaults = 1
    Nobody = Nobody
INVARIANTS
    ScheduleInv
    NoOverlapWithinTtl
PROPERTIES
    MinedRowsSettle
