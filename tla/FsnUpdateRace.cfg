SPECIFICATION AskingSpec
CONSTANTS
    Handlers = {h1, h2}
    None = None
    NRepos = 1
    MaxVersion = 2
    Tagged <- MCTagged
    Faults <- NoFault
    Getters = {}
    Putters = {}
    MaxConfig = 0
    Mods <- MCMods
    Lists <- TwoLists
PROPERTY
    CatchesUp
