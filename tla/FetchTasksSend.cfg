SPECIFICATION Spec
CONSTANTS
    zip1 = zip1
    zip2 = zip2
    one = one
    v = v
    w = w
    b = b
    None = None
    Sources <- FewSources
    Archives = {zip1}
    Files <- MCFiles
    Contents <- FewContents
    Jobs <- FewJobs
    Vps <- FewVps
    Vpcs = {}
    Entries <- FewEntries
    QueueLimit = 8
    Parallel = 4
    Faults <- NoFault
INVARIANT
    SendIsInfallible
CHECK_DEADLOCK FALSE
