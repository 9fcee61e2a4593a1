SPECIFICATION FairSpec
CONSTANTS
    Handlers = {h1, h2}
    None = None
    NRepos = 1
    MaxVersion = 2
    Tagged <- MCTagged
    Faults <- AllFaults
    Getters = {}
    Putters = {}
    MaxConfig = 0
    Mods <- MCMods
    Lists <- TwoLists
INVARIANTS
    FetchedIsPublished
    StoredWasPublished
PROPERTY
    EveryRequestAnswered
