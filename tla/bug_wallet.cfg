SPECIFICATION FairSpec
CONSTANTS
    Threads = 1
    MaxNonce = 0
    Premine = 2
    MaxHeight = 2
    MaxFaults = 2
PROPERTIES KeepsMining
CHECK_DEADLOCK FALSE
