SPECIFICATION FairSpec
CONSTANTS
    Off = Off
    PbadvT = 4
    ProvT = 3
    AppkeyT = 2
    ReadyT = 1
    DoneT = 1
    HwResetT = 1
    DelayT = 1
    RepeatT = 1
    RepeatCount = 1
    MaxSessions = 2
    MaxBoots = 2
    MaxButton = 1
    Ais = FALSE
    Fails = FALSE
PROPERTIES
    Decided
    HwResetDone
INVARIANTS
    TypeOK
    Reachable
