CONSTANTS
    w1 = w1
    w2 = w2
    Last = 3
    Steps = {1, 2, 3}
    Batch <- MCBatch
    Weaves = {w1}
    Patient = TRUE
    MaxChannels = 1
    MaxCrashes = 0
SPECIFICATION Spec
CHECK_DEADLOCK FALSE
INVARIANT CompletedStepsReplay
