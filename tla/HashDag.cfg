SPECIFICATION FairSpec
CONSTANTS
    i1 = i1
    i2 = i2
    i3 = i3
    Ids <- MCIds
    EdgeData = {sz}
    None = None
INVARIANTS
    TypeOK
    Mirrored
    SearchIsExact
PROPERTY
    SearchEnds
