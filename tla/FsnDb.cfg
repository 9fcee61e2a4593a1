SPECIFICATION DbSpec
CONSTANTS
    h1 = h1
    h2 = h2
    None = None
    Handlers <- MCHandlers
    Mods <- MCMods
    RepoLists <- MCLists
INVARIANTS
    DbTypeOK
    RowsBelongToRelease
    ReleasesAreWhole
    AnsweredIsStored
    OfferedFilesAreFetchable
PROPERTIES
    NothingIsLost
    RefinesCatalogue
