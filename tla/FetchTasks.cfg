SPECIFICATION FairSpec
CONSTANTS
    zip1 = zip1
    zip2 = zip2
    one = one
    v = v
    w = w
    b = b
    None = None
    Sources <- MCSources
    Archives <- MCArchives
    Files <- MCFiles
    Contents <- MCContents
    Jobs <- MCJobs
    Vps <- MCVps
    Vpcs <- MCVpcs
    Entries <- MCEntries
    QueueLimit = 2
    Parallel = 2
    Faults <- AllFaults
INVARIANTS
    TypeOK
    NoJoinedFailureIsLost
    WrongHashesHaveKnownCauses
PROPERTIES
    AcquireEnds
    LeftoversEnd
CHECK_DEADLOCK FALSE
