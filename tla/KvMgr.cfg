SPECIFICATION Spec
SYMMETRY Symmetry
\* Between calls the store rests.
CHECK_DEADLOCK FALSE
CONSTANTS
    Tasks = {a, b, c}
    Low = {c}
    Keys = {k1, k2}
    Vals = {v1, v2}
    None = None
    Cap = 2
    GcRoom = 1
    LossInGc = FALSE
    MaxCalls = 4
    MaxLosses = 2
INVARIANTS
    TypeOK
    ReadsBack
    Acknowledged
    NobodyStranded
PROPERTY Implements
