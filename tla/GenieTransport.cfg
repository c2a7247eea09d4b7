SPECIFICATION Spec
CONSTANTS
    Tasks = {app, bt}
    BtTask = bt
    None = None
    Off = Off
    DevTids = {1, 2, 3}
    AppTids = {0}
    Ops = {"INDICATE"}
    Periods = {1, 2}
    Retries = {0, 1}
    MaxRetry = 1
    MaxMsgs = 2
    MaxSends = 3
    MaxLate = 8
    Oom = FALSE
INVARIANTS
    LateBounded
    TimeoutAfterAll
PROPERTY NoResendAfterConfirm
