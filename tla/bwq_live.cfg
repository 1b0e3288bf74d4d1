\* Every task is handled in the end, and the queue implements TaskQueue.
SPECIFICATION FairSpec
CONSTANTS
    Tasks = {t1, t2}
    Servers = {s1, s2}
    Schedulers = {c1}
    NoLease = NoLease
    MaxAttempts = 51
    RescheduleLimit = 100
    Parallel = 1
    BatchSize = 1
    FirstLease = 1
    Lease = 1
    StartTimes = {0, 1}
    MaxTime = 4
    LastFailure = 1
PROPERTIES EventuallySettled QueueSpec
CHECK_DEADLOCK FALSE
