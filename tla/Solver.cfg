SPECIFICATION FairSpec
CONSTANTS
    s1 = s1
    s2 = s2
    s3 = s3
    f1 = f1
    f2 = f2
    f3 = f3
    Sources <- MCSources
    Hashes <- MCHashes
    Inputs <- MCInputs
INVARIANTS
    TypeOK
    ResultIsOptimal
    OptimumInReach
PROPERTY
    SearchEnds
CHECK_DEADLOCK FALSE
