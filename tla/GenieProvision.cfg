SPECIFICATION Spec
CONSTANTS
    Off = Off
    PbadvT = 4
    ProvT = 3
    AppkeyT = 2
    ReadyT = 1
    DoneT = 1
    HwResetT = 1
    DelayT = 1
    RepeatT = 1
    RepeatCount = 1
    MaxSessions = 2
    MaxBoots = 3
    MaxButton = 0
    Ais = TRUE
    Fails = TRUE
CONSTRAINT Promised
INVARIANTS
    Durable
    NodeResetDone
