CONSTANTS
    w1 = w1
    w2 = w2
    Last = 2
    Steps = {1, 2, 3}
    Batch <- MCBatch
    Weaves = {w1, w2}
    Patient = FALSE
    MaxChannels = 2
    MaxCrashes = 1
SPECIFICATION Spec
SYMMETRY MCSymmetry
CHECK_DEADLOCK FALSE
INVARIANT TypeOK
INVARIANT HistoriesDontMix
 
 
