SPECIFICATION FairSpec
\* Between calls the store rests.
CHECK_DEADLOCK FALSE
CONSTANTS
    Tasks = {a, b}
    Low = {}
    Keys = {k1}
    Vals = {v1, v2}
    None = None
    Cap = 3
    GcRoom = 2
    LossInGc = FALSE
    MaxCalls = 5
    MaxLosses = 0
PROPERTY CallReturns
