SPECIFICATION FairSpec
CONSTANTS
    reader = reader
    d1 = d1
    d2 = d2
    s1 = s1
    s2 = s2
    Reader <- reader
    Decoders <- MCDecoders
    Savers <- MCSavers
    Archives <- MCArchives
    Capacity = 1
    ParentDir = ".."
    DiskMayFail = TRUE
INVARIANTS
    TypeOK
    SuccessIsComplete
    OwnBytes
    BadFileCostsItself
    IndexAgrees
PROPERTY
    ToolEnds
CHECK_DEADLOCK FALSE
