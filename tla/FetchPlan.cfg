SPECIFICATION FairSpec
CONSTANTS
    f = f
    g = g
    v = v
    y = y
    z = z
    Ids <- MCIds
    Contains <- MCContains
    Listed <- MCListed
    Remote <- MCRemote
    Indexable <- MCIds
    Size <- MCSize
    Manifests <- MCManifests
INVARIANTS
    TypeOK
    DagIsComplete
    NothingSkipped
    PlanBringsWhatIsOffered
PROPERTY
    PlanningEnds
