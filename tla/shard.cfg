SPECIFICATION MCSpec
CONSTANTS
    Nodes = {n1, n2, n3}
    Shards = {0}
    Servers = {p1, p2}
    RegionFirst = {p1}
    NodeTimeout = 0
    LeftTimeout = 0
    MaxTime = 1
    LastFailure = 0
    NoNode = NoNode
    NoShard = NoShard
INVARIANTS OneServingNode AllocationsFollowNodes ActiveIsRunning
PROPERTIES NoServiceGap EventuallySettled
CHECK_DEADLOCK FALSE
