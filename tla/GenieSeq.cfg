SPECIFICATION Spec
CONSTANTS
    Tasks = {bt, tt}
    Interval = 3
    EarlySave = 1
    SeqMod = 9
    SeqLimit = 4
    MaxIv = 2
    None = None
SYMMETRY Senders
CONSTRAINT NoLapse
INVARIANTS
    TypeOK
    NonceFresh
    ResumesAbove
PROPERTY NonceMonotone
