SPECIFICATION FairSpec
CONSTANTS
    Threads = 2
    MaxNonce = 3
    Premine = 3
    MaxHeight = 4
    MaxFaults = 3
INVARIANTS GrindSound PaceKept
PROPERTIES MinesOn
CHECK_DEADLOCK FALSE
