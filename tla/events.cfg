SPECIFICATION Spec
CONSTANTS
    Feeds = {f1, f2}
    OnlineExpires = 3
    OnlineGap = 2
    TxTime = 1
    RefreshTime = 1
    Block = 1
    Flex = 1
    MaxTime = 5
    MaxLog = 2
SYMMETRY Symmetry
INVARIANTS CursorCovers RefsFollowSubscriptions
CHECK_DEADLOCK FALSE
