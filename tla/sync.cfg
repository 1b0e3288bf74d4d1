SPECIFICATION FairSpec
CONSTANTS
    Queues = {q1}
    Keys = {k1}
    Parallel = 2
    MaxTasks = 4
    MaxLost = 2
    MaxDeaths = 1
INVARIANTS NothingStranded HandledInOrder
PROPERTY EventuallyWorked
CHECK_DEADLOCK FALSE
