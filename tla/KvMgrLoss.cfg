SPECIFICATION Spec
\* Between calls the store rests.
CHECK_DEADLOCK FALSE
CONSTANTS
    Tasks = {a}
    Low = {}
    Keys = {k1, k2}
    Vals = {v1, v2}
    None = None
    Cap = 3
    GcRoom = 1
    LossInGc = TRUE
    MaxCalls = 5
    MaxLosses = 1
INVARIANTS
    Acknowledged
