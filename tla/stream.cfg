SPECIFICATION TransportFairSpec
CONSTANTS
    ExecutorStarts = TRUE
    MaxSent = 2
    MaxLost = 2
INVARIANTS KeptUntilDelivered
PROPERTIES StreamSpec EndsTogether EventuallyDelivered
CHECK_DEADLOCK FALSE
