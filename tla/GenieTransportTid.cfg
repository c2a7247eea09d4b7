SPECIFICATION FairSpec
CONSTANTS
    Tasks = {app, bt}
    BtTask = bt
    None = None
    Off = Off
    DevTids = {1}
    AppTids = {1}
    Ops = {"INDICATE"}
    Periods = {0, 1}
    Retries = {0, 1}
    MaxRetry = 1
    MaxMsgs = 2
    MaxSends = 2
    MaxLate = 8
    Oom = FALSE
PROPERTY EveryMessageResolved
