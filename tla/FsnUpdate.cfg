SPECIFICATION AskingSpec
CONSTANTS
    Handlers = {h1}
    None = None
    NRepos = 2
    MaxVersion = 3
    Tagged <- MCTagged
    Faults <- NetOnly
    Getters = {g}
    Putters = {p}
    MaxConfig = 2
    Mods <- MCMods
    Lists <- MCLists
INVARIANTS
    TypeOK
    TagMatchesCache
    UpdatedMeansProcessed
PROPERTIES
    CatchesUp
    ConfigUnchangedDuringUpdate
    ConfigAnswered
