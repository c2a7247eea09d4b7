SPECIFICATION Spec
CONSTANTS
    Sources = {1, 2, 17}
    Genies = {1, 2}
    GenieAddr = 1
    GenieGroup = 99
    MsgTids = {5, 6}
    Elems = {0}
    QueueSize = 2
    Window = 2
    TimeMod = 8
    MaxTime = 5
    MaxAccepts = 5
INVARIANTS
    TypeOK
    ActedOnOnce
    OnlyRepeatsDropped
\* Only the bounds on the clock and on the acceptances stop the model.
CHECK_DEADLOCK FALSE
