SPECIFICATION Spec
CONSTANTS
    Tasks = {t1, t2}
    Servers = {s1, s2}
    Schedulers = {c1, c2}
    NoLease = NoLease
    MaxAttempts = 2
    RescheduleLimit = 1
    Parallel = 1
    BatchSize = 2
    FirstLease = 1
    Lease = 1
    StartTimes = {0, 1}
    MaxTime = 4
    LastFailure = 2
SYMMETRY Symmetry
INVARIANTS NothingLost GoneIsHandledOrSpent EffectAtMostOnce IndexesAgree
PROPERTY LeaseRespected
CHECK_DEADLOCK FALSE
