SPECIFICATION HSpec
CONSTANTS
    c1 = c1
    c2 = c2
    NoMatch = NoMatch
    NoRequest = NoRequest
    NoValue = NoValue
    Clients = {c1}
    WritePaths <- NamespaceOnly
    ReadPaths <- NamespaceOnly
    ExternalPaths <- NoExternal
    Selectors <- MCSelectors
    Values = {1}
    Names = {"a"}
    Spellings <- MCSpellings
    Bare <- MCBare
    Delegates <- Stable
PROPERTIES
    ReadYourWrites
