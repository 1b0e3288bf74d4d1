SPECIFICATION Spec
CONSTANTS
    Queues = {q1, q2}
    Keys = {k1}
    Parallel = 1
    MaxTasks = 3
    MaxLost = 0
    MaxDeaths = 0
INVARIANT HandlerGetsItsOwn
CHECK_DEADLOCK FALSE
