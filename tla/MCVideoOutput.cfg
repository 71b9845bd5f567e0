SPECIFICATION Spec
CONSTANTS
    Buffers = 3
    SkipBudget = 2
    Formats = {hd, sd, uhd, odd}
    OverCeiling = {uhd}
    Unshowable = {odd}
    EventSpace = 3
    EventBatch = 2
    None = None
INVARIANTS DisplaySound
PROPERTIES CeilingKeepsPicture PresentReturns
