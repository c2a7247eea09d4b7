SPECIFICATION FairSpec
CONSTANTS
    Tasks = {app, bt}
    BtTask = bt
    None = None
    Off = Off
    DevTids = {1, 2}
    AppTids = {0, 1}
    Ops = {"INDICATE", "STATUS"}
    Periods = {1}
    Retries = {255}
    MaxRetry = 1
    MaxMsgs = 1
    MaxSends = 3
    MaxLate = 1
    Oom = TRUE
INVARIANTS
    TypeOK
    NoOrphan
    ListBounded
PROPERTIES
    OneOutcome
    ResolvedUnlessLeaked
