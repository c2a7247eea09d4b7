SPECIFICATION Spec
CONSTANTS
    Off = Off
    PbadvT = 4
    ProvT = 3
    AppkeyT = 2
    ReadyT = 1
    DoneT = 1
    HwResetT = 1
    DelayT = 1
    RepeatT = 1
    RepeatCount = 1
    MaxSessions = 1
    MaxBoots = 2
    MaxButton = 0
    Ais = FALSE
    Fails = FALSE
INVARIANT NodeResetAlways
