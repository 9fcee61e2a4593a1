SPECIFICATION DbSpec
CONSTANTS
    h1 = h1
    h2 = h2
    None = None
    Handlers <- MCHandlers
    Mods <- MCMods
    RepoLists <- TwoPackages
INVARIANT
    FilesBelongToPackage
