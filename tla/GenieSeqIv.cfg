SPECIFICATION Spec
CONSTANTS
    Tasks = {bt}
    Interval = 4
    EarlySave = 2
    SeqMod = 12
    SeqLimit = 6
    MaxIv = 1
    None = None
INVARIANT NonceFreshIv
