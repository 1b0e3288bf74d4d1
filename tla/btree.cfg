SPECIFICATION TreeSpec
CONSTANTS
    Keys = {1, 2, 3, 4, 5, 6, 7, 8, 9, 10, 11}
    maxBranch = 4
INVARIANTS CountsAreTrue OnlyDeepMergesThrow
CHECK_DEADLOCK FALSE
